---- MODULE Spec2Model ----
(***************************************************************************)
(* local-voice: the global hotkey state machine (src/hotkey/manager.py),   *)
(* the text injector (src/injection/text_injector.py) and the audio        *)
(* recorder (src/audio/recorder.py).                                       *)
(***************************************************************************)
EXTENDS Integers, Sequences, FiniteSets, TLC

VARIABLES
    \* HotkeyManager fields
    config,              \* self.config : [mode, modifiers, primary_key]
    key_pressed,         \* self._key_pressed
    modifiers_pressed,   \* self._modifiers_pressed
    on_start_callback,   \* self._on_start_callback is not None
    on_stop_callback,    \* self._on_stop_callback is not None
    on_toggle_callback,  \* self._on_toggle_callback is not None
    \* the keyboard and the observer of the callbacks
    down,                \* keys physically held
    fired,               \* the callbacks invoked so far, in order
    last,                \* the operation processed last
    nUpdates,            \* update_config calls so far
    drop,                \* the gesture dropped by the last update_config
    \* the scripted gesture of SpecGesture
    phase,               \* "pressing", "held", "releasing", "rest"
    cycles,              \* completed press/release cycles
    ordered,             \* every cycle so far released the primary key first
    \* TextInjector fields, the OS clipboard and the observer of inject()
    inj_config,          \* self.config : [method, add_trailing_space, preserve_clipboard]
    clipboard_backup,    \* self._clipboard_backup : {} is None, {t} is the text t
    clipboard,           \* the text on the OS clipboard
    call,                \* the last inject() call: its inputs and what it did
    \* AudioRecorder fields
    state,               \* self._state
    audio_buffer,        \* self._audio_buffer : the chunks appended, in order
    stream,              \* self._stream : "none", "created" or "started"
    voice_detected,      \* self._voice_detected
    max_abs_level,       \* self._max_abs_level
    active_sample_rate,  \* self._active_sample_rate
    on_vad_callback,     \* self._on_vad_callback is not None
    on_audio_callback,   \* self._on_audio_callback is not None
    \* the threads calling the recorder, the audio thread and the observers
    may,                 \* the operations each control thread calls
    pc,                  \* where each control thread stands
    audio_data,          \* audio_data of the stop_recording() of each thread
    ret,                 \* what the last call of each thread returned
    cb,                  \* the audio thread: where it stands, its chunk
    leaked,              \* a started stream is no longer referenced
    delivered,           \* chunks the device delivered so far
    starts,              \* start_recording() calls so far
    accepted,            \* chunks that passed the state check since the reset
    vad_events,          \* voice-activity callbacks since the reset
    raw_events,          \* raw-frame callbacks since the reset
    session,             \* the session since the reset: what held at the reset
    probe,               \* the rate negotiation of the last start_recording()
    \* the observer of _resample_audio()
    resample_call,
    \* the observer of HotkeyConfig.parse()
    parse_call,          \* a combination string, its configuration, the round trip
    \* the listener of HotkeyManager, the thread calling start() and stop(),
    \* and the listener thread
    listener,            \* self._listener is not None
    running,             \* self._running
    hooked,              \* the OS delivers key events to a listener of the manager
    installs,            \* keyboard.Listener objects created so far
    ctl,                 \* where the thread calling start() and stop() stands
    lastcall,            \* the last start() or stop(): what it saw and returned
    pending,             \* the key event the listener thread has taken, not yet handled
    \* the threads of inject_async()
    inj_threads,         \* where each thread stands, its text
    clip_at_start,       \* the clipboard when the first inject_async() began
    \* the callbacks of inject_async()
    on_complete_callback, \* self._on_complete_callback is not None
    async_calls,         \* each inject_async() call: its thread, what it invoked
    \* LocalVoiceApp: its flags, the transcription worker, the sessions so far
    is_recording,        \* self._is_recording
    is_processing,       \* self._is_processing
    worker,              \* the transcription worker: none, running, finished
    history,             \* how each session that was stopped ended
    last_req,            \* the last request handled: what it saw and called
    \* HotkeyManager._lock and the threads that take it
    lock,                \* the thread that holds self._lock, or none
    callers              \* where the listener thread and the main thread stand

hotkeyVars == <<config, key_pressed, modifiers_pressed, on_start_callback,
                on_stop_callback, on_toggle_callback, down, fired, last,
                nUpdates, drop>>
gestureVars == <<phase, cycles, ordered>>
injectVars == <<inj_config, clipboard_backup, clipboard, call>>
recorderFields == <<state, audio_buffer, stream, voice_detected, max_abs_level,
                    active_sample_rate, on_vad_callback, on_audio_callback>>
recorderVars == <<recorderFields, may, pc, audio_data, ret, cb, leaked, delivered,
                  starts, accepted, vad_events, raw_events, session, probe,
                  resample_call>>

parseVars == <<parse_call>>
listenerFields == <<listener, running, hooked>>
listenerVars == <<listenerFields, installs, ctl, lastcall, pending>>
asyncVars == <<inj_threads, clip_at_start>>
notifyVars == <<on_complete_callback, async_calls>>
orchVars == <<is_recording, is_processing, worker, history, last_req>>
lockVars == <<lock, callers>>
extraVars == <<notifyVars, orchVars, lockVars>>
auxVars == <<parseVars, listenerVars, asyncVars, extraVars>>

(***************************************************************************)
(* Bounds of the model.                                                    *)
(***************************************************************************)
MaxFired == 3
MaxUpdates == 1
MaxCycles == 2
MaxTextLen == 1
MaxFrames == 3
MaxStarts == 2
MaxSamples == 16

(***************************************************************************)
(* Keys. A pynput event carries a Key (named) or a KeyCode (character).    *)
(***************************************************************************)
K(name) == [cls |-> "Key", id |-> name]
C(char) == [cls |-> "KeyCode", id |-> char]
None == [cls |-> "None", id |-> ""]

\* The physical keys of the modelled keyboard, and the event key each one
\* delivers: a character key delivers its upper-case character while a shift
\* key is held.
Keyboard == {"shift_l", "ctrl_l", "f1", "a"}
CharKeys == {"a"}
Upper(c) == IF c = "a" THEN "A" ELSE c
EventKey(phys, held) ==
    IF phys \in CharKeys
    THEN IF "shift_l" \in held THEN C(Upper(phys)) ELSE C(phys)
    ELSE K(phys)

KEY_MAP ==
    [caps_lock |-> "caps_lock", f1 |-> "f1", f2 |-> "f2", f3 |-> "f3",
     f4 |-> "f4", f5 |-> "f5", f6 |-> "f6", f7 |-> "f7", f8 |-> "f8",
     f9 |-> "f9", f10 |-> "f10", f11 |-> "f11", f12 |-> "f12",
     space |-> "space", tab |-> "tab", enter |-> "enter",
     return |-> "enter", esc |-> "esc", escape |-> "esc",
     backspace |-> "backspace", home |-> "home", end |-> "end",
     page_up |-> "page_up", page_down |-> "page_down"]

MODIFIER_MAP ==
    [shift |-> "shift", ctrl |-> "ctrl", alt |-> "alt", cmd |-> "cmd",
     meta |-> "cmd"]

REVERSE_MODIFIER_MAP ==
    [shift |-> "shift", shift_l |-> "shift", shift_r |-> "shift",
     ctrl |-> "ctrl", ctrl_l |-> "ctrl", ctrl_r |-> "ctrl",
     alt |-> "alt", alt_l |-> "alt", alt_r |-> "alt",
     cmd |-> "cmd", cmd_l |-> "cmd", cmd_r |-> "cmd"]

\* str.lower() on the characters and key names of the model.
Lower(s) ==
    CASE s = "A" -> "a"
      [] s = "B" -> "b"
      [] OTHER -> s

get_key(key_name) ==
    IF Lower(key_name) \in DOMAIN KEY_MAP THEN K(KEY_MAP[Lower(key_name)]) ELSE None

is_modifier_key(key) == key.cls = "Key" /\ key.id \in DOMAIN REVERSE_MODIFIER_MAP

get_modifier_name(key) == REVERSE_MODIFIER_MAP[key.id]

is_primary_a_modifier(cfg) == cfg.primary_key \in DOMAIN MODIFIER_MAP

check_modifiers_match_subset(cfg, mp) == cfg.modifiers \subseteq mp

check_modifiers_match(cfg, mp) ==
    IF ~is_primary_a_modifier(cfg)
    THEN IF cfg.modifiers = {}
         THEN mp = {}
         ELSE cfg.modifiers \subseteq mp /\ Cardinality(mp) = Cardinality(cfg.modifiers)
    ELSE cfg.modifiers \subseteq mp

all_hotkey_modifiers_pressed_subset(cfg, mp) ==
    (cfg.modifiers \cup {cfg.primary_key}) \subseteq mp

all_hotkey_modifiers_pressed(cfg, mp) ==
    LET all_mods == IF is_primary_a_modifier(cfg)
                    THEN cfg.modifiers \cup {cfg.primary_key}
                    ELSE cfg.modifiers
    IN  all_mods = mp

is_primary_case_sensitive(cfg, key) ==
    IF key.cls = "Key"
    THEN key = get_key(cfg.primary_key)
    ELSE key.cls = "KeyCode" /\ key.id # "" /\ key.id = cfg.primary_key

\* is_primary of _on_press and _on_release
is_primary(cfg, key) ==
    IF key.cls = "Key"
    THEN key = get_key(cfg.primary_key)
    ELSE key.cls = "KeyCode" /\ key.id # "" /\ Lower(key.id) = Lower(cfg.primary_key)

\* invoking a callback, when one is registered
invoke(registered, log, event) == IF registered THEN Append(log, event) ELSE log

\* The mode branch of _on_press, taken once the combination matches:
\* the new engaged flag and the new callback log.
press_matched_repeat(cfg, kp, log, cbStart, cbToggle) ==
    IF cfg.mode = "hold"
    THEN [key_pressed |-> TRUE, fired |-> invoke(cbStart, log, "Start")]
    ELSE IF cfg.mode = "toggle"
    THEN [key_pressed |-> TRUE, fired |-> invoke(cbToggle, log, "Toggle")]
    ELSE [key_pressed |-> kp, fired |-> log]

press_matched(cfg, kp, log, cbStart, cbToggle) ==
    IF cfg.mode = "hold"
    THEN IF ~kp
         THEN [key_pressed |-> TRUE, fired |-> invoke(cbStart, log, "Start")]
         ELSE [key_pressed |-> kp, fired |-> log]
    ELSE IF cfg.mode = "toggle"
    THEN IF ~kp
         THEN [key_pressed |-> TRUE, fired |-> invoke(cbToggle, log, "Toggle")]
         ELSE [key_pressed |-> kp, fired |-> log]
    ELSE [key_pressed |-> kp, fired |-> log]

\* The branch of _on_release for a modifier of a modifier-only combination.
release_modifier_keeps(cfg, kp, mp, mod_name, log, cbStop) ==
    [key_pressed |-> kp, fired |-> log]

release_modifier(cfg, kp, mp, mod_name, log, cbStop) ==
    IF is_primary_a_modifier(cfg) /\ kp /\ mod_name \in mp
    THEN [key_pressed |-> FALSE,
          fired |-> IF cfg.mode = "hold" THEN invoke(cbStop, log, "Stop") ELSE log]
    ELSE [key_pressed |-> kp, fired |-> log]

\* A variant of the mode branch of _on_release whose Hold release clears the
\* engaged flag without invoking the Stop callback.
release_matched_silent(cfg, kp, log, cbStop) ==
    IF cfg.mode \in {"hold", "toggle"}
    THEN [key_pressed |-> FALSE, fired |-> log]
    ELSE [key_pressed |-> kp, fired |-> log]

\* The mode branch of _on_release, taken once the combination matches.
release_matched(cfg, kp, log, cbStop) ==
    IF cfg.mode = "hold"
    THEN IF kp
         THEN [key_pressed |-> FALSE, fired |-> invoke(cbStop, log, "Stop")]
         ELSE [key_pressed |-> kp, fired |-> log]
    ELSE IF cfg.mode = "toggle"
    THEN [key_pressed |-> FALSE, fired |-> log]
    ELSE [key_pressed |-> kp, fired |-> log]

(***************************************************************************)
(* HotkeyConfig values, as HotkeyConfig.parse produces them: the primary   *)
(* key is never among the modifiers.                                       *)
(***************************************************************************)
Modes == {"hold", "toggle"}
ConfigModifiers == {"shift", "ctrl"}
ConfigPrimaries == {"f1", "a", "ctrl"}

ConfigSet ==
    {[mode |-> m, modifiers |-> ms, primary_key |-> p] :
        m \in Modes, p \in ConfigPrimaries, ms \in SUBSET ConfigModifiers}
    \ {c \in [mode : Modes, modifiers : SUBSET ConfigModifiers,
              primary_key : ConfigPrimaries] : c.primary_key \in c.modifiers}

\* The configurations parse produces from the modifier tokens shift, ctrl,
\* cmd and meta with or without a named key or a character, and a keyboard
\* that also has the cmd key.
AliasModifiers == {"shift", "ctrl", "cmd", "meta"}
AliasPrimaries == {"f1", "a", "ctrl", "cmd", "meta"}
ConfigSetWithAliases ==
    {c \in [mode : Modes, modifiers : SUBSET AliasModifiers,
             primary_key : AliasPrimaries] : c.primary_key \notin c.modifiers}
KeyboardWithCmd == Keyboard \cup {"cmd"}

\* The name under which the manager records the key of a modifier token:
\* MODIFIER_MAP gives the key, REVERSE_MODIFIER_MAP the recorded name.
recorded_name(mod_name) == REVERSE_MODIFIER_MAP[MODIFIER_MAP[mod_name]]

Registered == on_start_callback /\ on_stop_callback /\ on_toggle_callback

NoDrop == [active |-> FALSE, mark |-> 0, pressed_since |-> FALSE]
NoConfig == [mode |-> "", modifiers |-> {}, primary_key |-> ""]
Op(name, key, cfg) ==
    [op |-> name, key |-> key, was_pressed |-> key_pressed, cfg |-> cfg]

(***************************************************************************)
(* TextInjector. A text is a sequence of characters; every call into the   *)
(* OS (pyperclip, the keyboard controller) may raise.                      *)
(***************************************************************************)
Chars == {"h", " "}
Whitespace == {" ", "\n", "\t"}
Texts == UNION {[1..n -> Chars] : n \in 0..MaxTextLen}
ClipTexts == {<<>>, <<"c">>}

Methods == {"clipboard", "keyboard", "clipboard_keyboard_fallback"}
InjectionConfigs ==
    [method : Methods, add_trailing_space : BOOLEAN, preserve_clipboard : BOOLEAN]
InjectionConfigDefault ==
    [method |-> "clipboard", add_trailing_space |-> TRUE, preserve_clipboard |-> TRUE]

\* Which OS calls of one inject() raise: pyperclip.paste() of the backup,
\* pyperclip.copy(text), the paste keystroke (before or after the application
\* saw it), pyperclip.copy() of the restore, and the character at which typing
\* raises (0: none).
\* A call that raised in inject_clipboard leaves the later ones unreached.
Failures ==
    {f \in [paste : BOOLEAN, copy : BOOLEAN, keys : {"ok", "before", "after"},
            restore : BOOLEAN, type_at : 0..(MaxTextLen + 1)] :
        /\ f.copy => (f.keys = "ok" /\ ~f.restore)
        /\ f.keys # "ok" => ~f.restore}
NoFailure ==
    [paste |-> FALSE, copy |-> FALSE, keys |-> "ok", restore |-> FALSE, type_at |-> 0]

RECURSIVE lstrip(_)
lstrip(t) == IF t # <<>> /\ Head(t) \in Whitespace THEN lstrip(Tail(t)) ELSE t
RECURSIVE rstrip(_)
rstrip(t) ==
    IF t # <<>> /\ t[Len(t)] \in Whitespace THEN rstrip(SubSeq(t, 1, Len(t) - 1)) ELSE t
\* A strip() that removes nothing.
strip_nothing(t) == t

strip(t) == rstrip(lstrip(t))

endswith(t, c) == t # <<>> /\ t[Len(t)] = c

\* The text inject() delivers: a space is appended unless the text ends in one
\* or in a newline.
prepare(text0, cfg) ==
    IF /\ cfg.add_trailing_space
       /\ ~endswith(text0, " ")
       /\ ~endswith(text0, "\n")
    THEN Append(text0, " ")
    ELSE text0

\* The injector's state while inject() runs: st.clipboard, st.backup, st.app
\* (what the focused application received), and whether the clipboard was
\* read (st.read) or written (st.copied).
backup_clipboard(st, cfg, f) ==
    IF ~cfg.preserve_clipboard
    THEN st
    ELSE IF f.paste
    THEN [st EXCEPT !.backup = {}, !.read = TRUE]
    ELSE [st EXCEPT !.backup = {st.clipboard}, !.read = TRUE]

restore_clipboard_skipped(st, cfg, f) == st

restore_clipboard(st, cfg, f) ==
    IF ~cfg.preserve_clipboard \/ st.backup = {}
    THEN st
    ELSE IF f.restore
    THEN [st EXCEPT !.backup = {}]
    ELSE [st EXCEPT !.clipboard = CHOOSE t \in st.backup : TRUE, !.backup = {}]

inject_clipboard(st, text, cfg, f) ==
    LET s1 == backup_clipboard(st, cfg, f)
        s2 == [s1 EXCEPT !.clipboard = text, !.copied = TRUE]
        s3 == [s2 EXCEPT !.app = Append(@, [how |-> "paste", text |-> s2.clipboard])]
    IN  IF f.copy
        THEN [ok |-> FALSE, st |-> s1]
        ELSE IF f.keys = "before"
        THEN [ok |-> FALSE, st |-> s2]
        ELSE IF f.keys = "after"
        THEN [ok |-> FALSE, st |-> s3]
        ELSE [ok |-> TRUE, st |-> restore_clipboard(s3, cfg, f)]

\* A variant of inject_keyboard that reports success although typing raised.
inject_keyboard_reports_success(st, text, cfg, f) ==
    [ok |-> TRUE,
     st |-> [st EXCEPT !.app =
               Append(@, [how |-> "type",
                          text |-> IF f.type_at \in 1..Len(text)
                                   THEN SubSeq(text, 1, f.type_at - 1)
                                   ELSE text])]]

inject_keyboard(st, text, cfg, f) ==
    IF f.type_at \in 1..Len(text)
    THEN [ok |-> FALSE,
          st |-> [st EXCEPT !.app =
                    Append(@, [how |-> "type", text |-> SubSeq(text, 1, f.type_at - 1)])]]
    ELSE [ok |-> TRUE, st |-> [st EXCEPT !.app = Append(@, [how |-> "type", text |-> text])]]

\* A variant of inject() that attempts the first method only.
inject_single_attempt(st, text0, cfg, f) ==
    LET text == prepare(text0, cfg)
        c == inject_clipboard(st, text, cfg, f)
        k == inject_keyboard(st, text, cfg, f)
    IN  IF strip(text0) = <<>>
        THEN [ok |-> FALSE, st |-> st, attempts |-> <<>>, clip_ok |-> FALSE]
        ELSE IF cfg.method = "keyboard"
        THEN [ok |-> k.ok, st |-> k.st, attempts |-> <<"keyboard">>, clip_ok |-> FALSE]
        ELSE [ok |-> c.ok, st |-> c.st, attempts |-> <<"clipboard">>, clip_ok |-> c.ok]

\* inject(): the result, the injector's state after it, the methods attempted
inject(st, text0, cfg, f) ==
    LET text == prepare(text0, cfg)
        c == inject_clipboard(st, text, cfg, f)
        k == inject_keyboard(st, text, cfg, f)
    IN  IF strip(text0) = <<>>
        THEN [ok |-> FALSE, st |-> st, attempts |-> <<>>, clip_ok |-> FALSE]
        ELSE IF cfg.method \in {"clipboard", "clipboard_keyboard_fallback"}
        THEN IF c.ok
             THEN [ok |-> TRUE, st |-> c.st, attempts |-> <<"clipboard">>,
                   clip_ok |-> TRUE]
             ELSE LET k2 == inject_keyboard(c.st, text, cfg, f)
                  IN  [ok |-> k2.ok, st |-> k2.st,
                       attempts |-> <<"clipboard", "keyboard">>, clip_ok |-> FALSE]
        ELSE IF cfg.method = "keyboard"
        THEN IF k.ok
             THEN [ok |-> TRUE, st |-> k.st, attempts |-> <<"keyboard">>,
                   clip_ok |-> FALSE]
             ELSE LET c2 == inject_clipboard(k.st, text, cfg, f)
                  IN  [ok |-> c2.ok, st |-> c2.st,
                       attempts |-> <<"keyboard", "clipboard">>, clip_ok |-> c2.ok]
        ELSE [ok |-> FALSE, st |-> st, attempts |-> <<>>, clip_ok |-> FALSE]

NoCall ==
    [op |-> "none", text |-> <<>>, f |-> NoFailure, clip_before |-> <<>>,
     ok |-> FALSE, clip_ok |-> FALSE, copied |-> FALSE, read |-> FALSE,
     attempts |-> <<>>, app |-> <<>>, backup_before |-> {}]

InjectIdle ==
    /\ inj_config = InjectionConfigDefault
    /\ clipboard_backup = {}
    /\ clipboard = <<>>
    /\ call = NoCall

InjectInit ==
    /\ inj_config \in InjectionConfigs
    /\ clipboard_backup = {}
    /\ clipboard \in ClipTexts
    /\ call = NoCall

Inject ==
    \E text \in Texts, f \in Failures :
        LET r == inject([clipboard |-> clipboard, backup |-> clipboard_backup,
                         app |-> <<>>, copied |-> FALSE, read |-> FALSE],
                        text, inj_config, f)
        IN  /\ call = NoCall
            /\ clipboard' = r.st.clipboard
            /\ clipboard_backup' = r.st.backup
            /\ call' = [op |-> "inject", text |-> text, f |-> f,
                        clip_before |-> clipboard, ok |-> r.ok,
                        clip_ok |-> r.clip_ok, copied |-> r.st.copied,
                        read |-> r.st.read, attempts |-> r.attempts,
                        app |-> r.st.app, backup_before |-> clipboard_backup]
            /\ UNCHANGED inj_config

\* the caller has taken the result of inject()
InjectReturned ==
    /\ call # NoCall
    /\ call' = NoCall
    /\ UNCHANGED <<inj_config, clipboard_backup, clipboard>>

\* the settings are applied: self._injector.config = injection_config
SetInjectionConfig ==
    \E cfg \in InjectionConfigs :
        /\ call = NoCall
        /\ cfg # inj_config
        /\ inj_config' = cfg
        /\ UNCHANGED <<clipboard_backup, clipboard, call>>

\* the user, or another application, puts a text on the clipboard
UserCopy ==
    \E t \in ClipTexts :
        /\ call = NoCall
        /\ t # clipboard
        /\ clipboard' = t
        /\ UNCHANGED <<inj_config, clipboard_backup, call>>

(***************************************************************************)
(* AudioRecorder. A chunk is what one audio callback delivers: its number  *)
(* and its level, 2 when its RMS is above silence_threshold and 1 when it  *)
(* is not. start_recording() and stop_recording() run on control threads,  *)
(* _audio_callback() on the audio thread; a step is one statement that     *)
(* reads or writes the recorder's fields.                                  *)
(***************************************************************************)
sample_rate == 16000
DeviceRates == {16000, 48000}
Rates == {8000, 16000, 48000}
Levels == {1, 2}
Chunks == [id : 1..MaxFrames, level : Levels]
Threads == {"t1", "t2"}
NoChunk == [id |-> 0, level |-> 0]
NoData == [none |-> TRUE, frames |-> <<>>, samples |-> 0]
NoRet == [op |-> "none", ok |-> FALSE, data |-> NoData]
NoProbe == [candidates |-> <<>>, passed |-> {}, opened |-> FALSE]
\* vad_registered: the voice-activity callback was registered at the reset;
\* earlier_voice: a session before the reset saw voice; overlapped: a callback
\* was running when stop_recording() set Stopping; start_no: the number of the
\* start_recording() call that made the reset; first_id: the chunks delivered
\* before the reset; earlier_frames: the reset emptied a buffer that held chunks.
NoSession ==
    [vad_registered |-> FALSE, earlier_voice |-> FALSE, overlapped |-> FALSE,
     start_no |-> 0, first_id |-> 0, earlier_frames |-> FALSE]
NoResample ==
    [n |-> 0, source |-> 0, target |-> 0, out |-> -1, via |-> "none",
     called |-> FALSE]

\* num / den rounded up
round_up(num, den) == (num + den - 1) \div den

\* round(num / den) with an exact half going up
round_half_up(num, den) == (2 * num + den) \div (2 * den)

\* round(num / den) as Python rounds: an exact half goes to the even neighbour
round(num, den) ==
    LET q == num \div den
        r == num % den
    IN  IF 2 * r < den THEN q
        ELSE IF 2 * r > den THEN q + 1
        ELSE IF q % 2 = 0 THEN q ELSE q + 1

Max(a, b) == IF a >= b THEN a ELSE b

\* The number of frames _resample_audio() returns for in_samples frames.
resample_audio(in_samples, source_rate, target_rate) ==
    IF source_rate = target_rate
    THEN in_samples
    ELSE IF in_samples < 2
    THEN in_samples
    ELSE Max(1, round(in_samples * target_rate, source_rate))

\* The tail of stop_recording(): the buffer it returns and whether it called
\* _resample_audio() on the way.
stop_resampled(data, active_rate) ==
    IF ~data.none /\ data.samples > 0 /\ active_rate # sample_rate
    THEN [data |-> [data EXCEPT !.samples =
                       resample_audio(data.samples, active_rate, sample_rate)],
          called |-> TRUE]
    ELSE [data |-> data, called |-> FALSE]

\* A variant of get_audio_data() that returns a zero-length buffer.
get_audio_data_zero_length(buffer) ==
    [none |-> FALSE, frames |-> buffer, samples |-> Len(buffer)]

\* get_audio_data(): None for an empty buffer, else the chunks concatenated
get_audio_data(buffer) ==
    IF buffer = <<>>
    THEN NoData
    ELSE [none |-> FALSE, frames |-> buffer, samples |-> Len(buffer)]

is_voice(chunk) == chunk.level > 1

\* The candidate rates of start_recording() and the rate it selects, given
\* the device's default rate (0: unknown) and the rates the check accepts.
candidate_rates(device_default_rate) ==
    IF device_default_rate # 0 /\ device_default_rate # sample_rate
    THEN <<sample_rate, device_default_rate>>
    ELSE <<sample_rate>>

selected_sample_rate(candidates, passed) ==
    IF \E i \in 1..Len(candidates) : candidates[i] \in passed
    THEN candidates[CHOOSE i \in 1..Len(candidates) :
                        /\ candidates[i] \in passed
                        /\ \A j \in 1..(i - 1) : candidates[j] \notin passed]
    ELSE sample_rate

\* stream.stop() returns once no audio callback is running any more
stream_stop_no_wait(cbpc) == TRUE

stream_stop_returns(cbpc) == cbpc = "idle"

RecorderInit ==
    /\ state = "IDLE"
    /\ audio_buffer = <<>>
    /\ stream = "none"
    /\ voice_detected = FALSE
    /\ max_abs_level = 0
    /\ active_sample_rate = sample_rate
    /\ on_vad_callback = FALSE
    /\ on_audio_callback = FALSE
    /\ pc = [t \in Threads |-> "idle"]
    /\ audio_data = [t \in Threads |-> NoData]
    /\ ret = [t \in Threads |-> NoRet]
    /\ cb = [pc |-> "idle", chunk |-> NoChunk]
    /\ leaked = FALSE
    /\ delivered = 0
    /\ starts = 0
    /\ accepted = <<>>
    /\ vad_events = <<>>
    /\ raw_events = <<>>
    /\ session = NoSession
    /\ probe = NoProbe

RecorderIdle ==
    /\ RecorderInit
    /\ may = [t \in Threads |-> {}]
    /\ resample_call = NoResample

set_vad_callback ==
    /\ ~on_vad_callback
    /\ on_vad_callback' = TRUE
    /\ UNCHANGED <<state, audio_buffer, stream, voice_detected, max_abs_level,
                   active_sample_rate, on_audio_callback, may, pc, audio_data, ret,
                   cb, leaked, delivered, starts, accepted, vad_events, raw_events,
                   session, probe, resample_call>>

set_audio_callback ==
    /\ ~on_audio_callback
    /\ on_audio_callback' = TRUE
    /\ UNCHANGED <<state, audio_buffer, stream, voice_detected, max_abs_level,
                   active_sample_rate, on_vad_callback, may, pc, audio_data, ret,
                   cb, leaked, delivered, starts, accepted, vad_events, raw_events,
                   session, probe, resample_call>>

(***************************************************************************)
(* start_recording() on control thread t.                                  *)
(***************************************************************************)
Returns(t, op, ok, data) == [ret EXCEPT ![t] = [op |-> op, ok |-> ok, data |-> data]]

start_recording_call(t) ==
    /\ pc[t] = "idle"
    /\ "start" \in may[t]
    /\ starts < MaxStarts
    /\ starts' = starts + 1
    /\ IF state = "RECORDING"
       THEN /\ ret' = Returns(t, "start", TRUE, NoData)
            /\ UNCHANGED <<pc, probe>>
       ELSE /\ pc' = [pc EXCEPT ![t] = "clear_buffer"]
            /\ ret' = [ret EXCEPT ![t] = NoRet]
            /\ probe' = NoProbe
    /\ UNCHANGED <<state, audio_buffer, stream, voice_detected, max_abs_level,
                 active_sample_rate, on_vad_callback, on_audio_callback,
                 may, audio_data, cb, leaked, delivered, accepted,
                 vad_events, raw_events, session, resample_call>>

\* A variant of clear_buffer() that keeps the buffered chunks.
clear_buffer_keeps(t) ==
    /\ pc[t] = "clear_buffer"
    /\ audio_buffer' = audio_buffer
    /\ voice_detected' = FALSE
    /\ max_abs_level' = 0
    /\ accepted' = <<>>
    /\ vad_events' = <<>>
    /\ raw_events' = <<>>
    /\ session' = [vad_registered |-> on_vad_callback,
                   earlier_voice |-> (session.earlier_voice \/ voice_detected),
                   overlapped |-> FALSE,
                   start_no |-> starts,
                   first_id |-> delivered,
                   earlier_frames |-> (audio_buffer # <<>>)]
    /\ pc' = [pc EXCEPT ![t] = "set_recording"]
    /\ UNCHANGED <<state, stream, active_sample_rate, on_vad_callback,
                 on_audio_callback, may, audio_data, ret, cb, leaked,
                 delivered, starts, probe, resample_call>>

\* clear_buffer(), under the lock
clear_buffer(t) ==
    /\ pc[t] = "clear_buffer"
    /\ audio_buffer' = <<>>
    /\ voice_detected' = FALSE
    /\ max_abs_level' = 0
    /\ accepted' = <<>>
    /\ vad_events' = <<>>
    /\ raw_events' = <<>>
    /\ session' = [vad_registered |-> on_vad_callback,
                   earlier_voice |-> (session.earlier_voice \/ voice_detected),
                   overlapped |-> FALSE,
                   start_no |-> starts,
                   first_id |-> delivered,
                   earlier_frames |-> (audio_buffer # <<>>)]
    /\ pc' = [pc EXCEPT ![t] = "set_recording"]
    /\ UNCHANGED <<state, stream, active_sample_rate, on_vad_callback,
                 on_audio_callback, may, audio_data, ret, cb, leaked,
                 delivered, starts, probe, resample_call>>

\* self._state = RecorderState.RECORDING
start_set_recording(t) ==
    /\ pc[t] = "set_recording"
    /\ state' = "RECORDING"
    /\ pc' = [pc EXCEPT ![t] = "probe"]
    /\ UNCHANGED <<audio_buffer, stream, voice_detected, max_abs_level,
                 active_sample_rate, on_vad_callback, on_audio_callback,
                 may, audio_data, ret, cb, leaked, delivered, starts,
                 accepted, vad_events, raw_events, session, probe,
                 resample_call>>

\* the device's default rate is queried and the candidate rates are checked
start_probe(t) ==
    /\ pc[t] = "probe"
    /\ \E device_default_rate \in DeviceRates \cup {0}, passed \in SUBSET DeviceRates :
         LET candidates == candidate_rates(device_default_rate) IN
         /\ passed \subseteq {candidates[i] : i \in 1..Len(candidates)}
         /\ active_sample_rate' = selected_sample_rate(candidates, passed)
         /\ probe' = [candidates |-> candidates, passed |-> passed, opened |-> FALSE]
    /\ pc' = [pc EXCEPT ![t] = "open"]
    /\ UNCHANGED <<state, audio_buffer, stream, voice_detected, max_abs_level,
                 on_vad_callback, on_audio_callback, may, audio_data, ret,
                 cb, leaked, delivered, starts, accepted, vad_events,
                 raw_events, session, resample_call>>

\* self._stream = sd.InputStream(...), which may raise
start_open(t) ==
    /\ pc[t] = "open"
    /\ \E opens \in BOOLEAN :
         IF opens
         THEN /\ stream' = "created"
              /\ leaked' = (leaked \/ stream = "started")
              /\ probe' = [probe EXCEPT !.opened = TRUE]
              /\ pc' = [pc EXCEPT ![t] = "stream_start"]
              /\ UNCHANGED <<state, ret>>
         ELSE /\ state' = "IDLE"
              /\ ret' = Returns(t, "start", FALSE, NoData)
              /\ pc' = [pc EXCEPT ![t] = "idle"]
              /\ UNCHANGED <<stream, leaked, probe>>
    /\ UNCHANGED <<audio_buffer, voice_detected, max_abs_level,
                 active_sample_rate, on_vad_callback, on_audio_callback,
                 may, audio_data, cb, delivered, starts, accepted,
                 vad_events, raw_events, session, resample_call>>

\* self._stream.start(), which may raise
start_stream_start(t) ==
    /\ pc[t] = "stream_start"
    /\ \E starts_up \in BOOLEAN :
         IF starts_up
         THEN /\ stream' = "started"
              /\ ret' = Returns(t, "start", TRUE, NoData)
              /\ UNCHANGED state
         ELSE /\ state' = "IDLE"
              /\ ret' = Returns(t, "start", FALSE, NoData)
              /\ UNCHANGED stream
    /\ pc' = [pc EXCEPT ![t] = "idle"]
    /\ UNCHANGED <<audio_buffer, voice_detected, max_abs_level,
                 active_sample_rate, on_vad_callback, on_audio_callback,
                 may, audio_data, cb, leaked, delivered, starts, accepted,
                 vad_events, raw_events, session, probe,
                 resample_call>>

(***************************************************************************)
(* stop_recording() on control thread t.                                   *)
(***************************************************************************)
stop_recording_call(t) ==
    /\ pc[t] = "idle"
    /\ "stop" \in may[t]
    /\ IF state # "RECORDING"
       THEN /\ ret' = Returns(t, "stop", FALSE, NoData)
            /\ UNCHANGED pc
       ELSE /\ pc' = [pc EXCEPT ![t] = "set_stopping"]
            /\ ret' = [ret EXCEPT ![t] = NoRet]
    /\ UNCHANGED <<state, audio_buffer, stream, voice_detected, max_abs_level,
                 active_sample_rate, on_vad_callback, on_audio_callback,
                 may, audio_data, cb, leaked, delivered, starts, accepted,
                 vad_events, raw_events, session, probe,
                 resample_call>>

\* self._state = RecorderState.STOPPING
stop_set_stopping(t) ==
    /\ pc[t] = "set_stopping"
    /\ state' = "STOPPING"
    /\ session' = [session EXCEPT !.overlapped = (cb.pc # "idle")]
    /\ pc' = [pc EXCEPT ![t] = "stream_stop"]
    /\ UNCHANGED <<audio_buffer, stream, voice_detected, max_abs_level,
                 active_sample_rate, on_vad_callback, on_audio_callback,
                 may, audio_data, ret, cb, leaked, delivered, starts,
                 accepted, vad_events, raw_events, probe,
                 resample_call>>

\* if self._stream: stop(), close(), self._stream = None
stop_stream_stop(t) ==
    /\ pc[t] = "stream_stop"
    /\ IF stream # "none"
       THEN /\ stream_stop_returns(cb.pc)
            /\ stream' = "none"
       ELSE UNCHANGED stream
    /\ pc' = [pc EXCEPT ![t] = "get_audio_data"]
    /\ UNCHANGED <<state, audio_buffer, voice_detected, max_abs_level,
                 active_sample_rate, on_vad_callback, on_audio_callback,
                 may, audio_data, ret, cb, leaked, delivered, starts,
                 accepted, vad_events, raw_events, session, probe,
                 resample_call>>

\* audio_data = self.get_audio_data(), under the lock
stop_get_audio_data(t) ==
    /\ pc[t] = "get_audio_data"
    /\ audio_data' = [audio_data EXCEPT ![t] = get_audio_data(audio_buffer)]
    /\ pc' = [pc EXCEPT ![t] = "set_idle"]
    /\ UNCHANGED <<state, audio_buffer, stream, voice_detected, max_abs_level,
                 active_sample_rate, on_vad_callback, on_audio_callback,
                 may, ret, cb, leaked, delivered, starts, accepted,
                 vad_events, raw_events, session, probe,
                 resample_call>>

\* self._state = RecorderState.IDLE
stop_set_idle(t) ==
    /\ pc[t] = "set_idle"
    /\ state' = "IDLE"
    /\ pc' = [pc EXCEPT ![t] = "return"]
    /\ UNCHANGED <<audio_buffer, stream, voice_detected, max_abs_level,
                 active_sample_rate, on_vad_callback, on_audio_callback,
                 may, audio_data, ret, cb, leaked, delivered, starts,
                 accepted, vad_events, raw_events, session, probe,
                 resample_call>>

\* the buffer is resampled when the stream's rate is not the configured one
stop_return(t) ==
    /\ pc[t] = "return"
    /\ ret' = Returns(t, "stop", TRUE,
                      stop_resampled(audio_data[t], active_sample_rate).data)
    /\ pc' = [pc EXCEPT ![t] = "idle"]
    /\ UNCHANGED <<state, audio_buffer, stream, voice_detected, max_abs_level,
                 active_sample_rate, on_vad_callback, on_audio_callback,
                 may, audio_data, cb, leaked, delivered, starts, accepted,
                 vad_events, raw_events, session, probe,
                 resample_call>>

(***************************************************************************)
(* _audio_callback() on the audio thread.                                  *)
(***************************************************************************)
\* a running stream delivers a chunk; it is dropped unless Recording
audio_callback ==
    /\ cb.pc = "idle"
    /\ stream = "started" \/ leaked
    /\ delivered < MaxFrames
    /\ delivered' = delivered + 1
    /\ \E level \in Levels :
         LET chunk == [id |-> delivered + 1, level |-> level] IN
         IF state # "RECORDING"
         THEN UNCHANGED <<cb, max_abs_level, accepted>>
         ELSE /\ max_abs_level' = Max(max_abs_level, chunk.level)
              /\ accepted' = Append(accepted, chunk)
              /\ cb' = [pc |-> "append", chunk |-> chunk]
    /\ UNCHANGED <<state, audio_buffer, stream, voice_detected,
                 active_sample_rate, on_vad_callback, on_audio_callback,
                 may, pc, audio_data, ret, leaked, starts, vad_events,
                 raw_events, session, probe, resample_call>>

\* the chunk is appended under the lock and passed to the raw-frame callback
audio_callback_append ==
    /\ cb.pc = "append"
    /\ audio_buffer' = Append(audio_buffer, cb.chunk)
    /\ raw_events' = IF on_audio_callback THEN Append(raw_events, cb.chunk.id)
                     ELSE raw_events
    /\ cb' = [cb EXCEPT !.pc = "detect_voice_activity"]
    /\ UNCHANGED <<state, stream, voice_detected, max_abs_level,
                 active_sample_rate, on_vad_callback, on_audio_callback,
                 may, pc, audio_data, ret, leaked, delivered, starts,
                 accepted, vad_events, session, probe, resample_call>>

\* A variant of _detect_voice_activity() that reports silence without the flag.
detect_voice_activity_ungated(chunk, vd, registered, events) ==
    IF is_voice(chunk)
    THEN [voice_detected |-> TRUE,
          events |-> IF registered
                     THEN Append(events, [id |-> chunk.id, voice |-> TRUE])
                     ELSE events]
    ELSE [voice_detected |-> vd,
          events |-> IF registered
                     THEN Append(events, [id |-> chunk.id, voice |-> FALSE])
                     ELSE events]

\* _detect_voice_activity(): the flag after the chunk and the callbacks made
detect_voice_activity(chunk, vd, registered, events) ==
    IF is_voice(chunk)
    THEN [voice_detected |-> TRUE,
          events |-> IF registered
                     THEN Append(events, [id |-> chunk.id, voice |-> TRUE])
                     ELSE events]
    ELSE [voice_detected |-> vd,
          events |-> IF registered /\ vd
                     THEN Append(events, [id |-> chunk.id, voice |-> FALSE])
                     ELSE events]

audio_callback_detect ==
    /\ cb.pc = "detect_voice_activity"
    /\ LET r == detect_voice_activity(cb.chunk, voice_detected, on_vad_callback,
                                      vad_events) IN
       /\ voice_detected' = r.voice_detected
       /\ vad_events' = r.events
    /\ cb' = [pc |-> "idle", chunk |-> NoChunk]
    /\ UNCHANGED <<state, audio_buffer, stream, max_abs_level,
                 active_sample_rate, on_vad_callback, on_audio_callback,
                 may, pc, audio_data, ret, leaked, delivered, starts,
                 accepted, raw_events, session, probe, resample_call>>

(***************************************************************************)
(* HotkeyConfig.parse() and the serialization of a configuration.  A       *)
(* combination string is the sequence of its parts between the '+' signs;  *)
(* a part is a name written in some letter case, with or without spaces    *)
(* around it.  underscored marks a part whose spaces were replaced by '_'. *)
(***************************************************************************)
MaxParts == 3
modifier_keywords == {"shift", "ctrl", "alt", "cmd", "meta"}
PartNames == {"shift", "ctrl", "meta", "a"}
Parts == [name : PartNames, upper : BOOLEAN, padded : BOOLEAN, underscored : {FALSE}]
HotkeyStrings == UNION {[1..n -> Parts] : n \in 1..MaxParts}
Plain(name) == [name |-> name, upper |-> FALSE, padded |-> FALSE, underscored |-> FALSE]
\* None, which is not the empty part
NoPart == [name |-> "None", upper |-> FALSE, padded |-> FALSE, underscored |-> FALSE]

\* str.lower(), str.strip() and str.replace(' ', '_') on one part
lower_part(part) == [part EXCEPT !.upper = FALSE]
strip_part(part) == [part EXCEPT !.padded = FALSE]
replace_spaces(part) ==
    IF part.padded THEN [part EXCEPT !.padded = FALSE, !.underscored = TRUE] ELSE part

\* part in modifier_keywords: the part is exactly one of the keywords
is_keyword(part) == part \in {Plain(k) : k \in modifier_keywords}

\* the loop of parse over the parts: the modifiers found and the last other part
RECURSIVE parse_parts(_, _, _)
parse_parts(parts, modifiers, primary_key) ==
    IF parts = <<>>
    THEN [modifiers |-> modifiers, primary_key |-> primary_key]
    ELSE LET part == strip_part(Head(parts))
         IN  IF is_keyword(part)
             THEN parse_parts(Tail(parts), modifiers \cup {part}, primary_key)
             ELSE parse_parts(Tail(parts), modifiers, part)

parse(hotkey_string) ==
    LET parts == [i \in 1..Len(hotkey_string) |-> lower_part(hotkey_string[i])]
        r == parse_parts(parts, {}, NoPart)
    IN  IF r.primary_key = NoPart
        THEN LET last_part == strip_part(parts[Len(parts)])
             IN  [modifiers |-> r.modifiers \ {last_part}, primary_key |-> last_part]
        ELSE r

\* sorted() on a set of modifier parts: the keywords in alphabetical order
Alphabetical == <<"alt", "cmd", "ctrl", "meta", "shift">>
IsKept(modifiers, name) == \E m \in modifiers : m.name = name
RECURSIVE sorted_from(_, _)
sorted_from(modifiers, i) ==
    IF i > Len(Alphabetical)
    THEN <<>>
    ELSE (IF IsKept(modifiers, Alphabetical[i])
          THEN <<CHOOSE m \in modifiers : m.name = Alphabetical[i]>>
          ELSE <<>>) \o sorted_from(modifiers, i + 1)
sorted(modifiers) == sorted_from(modifiers, 1)

\* A variant of the serialization that writes the primary key first.
serialize_primary_first(cfg) ==
    LET hotkey_parts == <<cfg.primary_key>> \o sorted(cfg.modifiers)
    IN  [i \in 1..Len(hotkey_parts) |-> replace_spaces(lower_part(hotkey_parts[i]))]

\* '+'.join of the sorted modifiers and then the primary key, each part
\* lower-cased and its spaces replaced
serialize(cfg) ==
    LET hotkey_parts == sorted(cfg.modifiers) \o <<cfg.primary_key>>
    IN  [i \in 1..Len(hotkey_parts) |-> replace_spaces(lower_part(hotkey_parts[i]))]

NoParsed == [modifiers |-> {}, primary_key |-> NoPart]
NoParse == [hotkey_string |-> <<>>, done |-> FALSE, cfg |-> NoParsed,
            serialized |-> <<>>, again |-> NoParsed, returned |-> "",
            installed |-> FALSE]
ParseIdle == parse_call = NoParse

ParseInit ==
    \E hotkey_string \in HotkeyStrings :
        parse_call = [NoParse EXCEPT !.hotkey_string = hotkey_string]

ParseRoundTrip ==
    /\ parse_call.hotkey_string # <<>>
    /\ ~parse_call.done
    /\ LET cfg == parse(parse_call.hotkey_string)
       IN  parse_call' = [parse_call EXCEPT !.done = TRUE,
                                            !.cfg = cfg,
                                            !.serialized = serialize(cfg),
                                            !.again = parse(serialize(cfg))]

(***************************************************************************)
(* The listener of HotkeyManager and the threads of inject_async() at rest.*)
(***************************************************************************)
NoLastCall == [op |-> "none", ok |-> FALSE, was_running |-> FALSE, outcome |-> "none",
               created |-> 0]
NoPending == [op |-> "none", key |-> None]
ListenerIdle ==
    /\ listener = FALSE
    /\ running = FALSE
    /\ hooked = FALSE
    /\ installs = 0
    /\ ctl = "idle"
    /\ lastcall = NoLastCall
    /\ pending = NoPending

NoInjectThread == [pc |-> "idle", text |-> <<>>, overlapped |-> FALSE]
AsyncIdle ==
    /\ inj_threads = [t \in Threads |-> NoInjectThread]
    /\ clip_at_start = <<>>

NoAsyncCall ==
    [pc |-> "idle", text |-> <<>>, callback |-> FALSE, registered |-> FALSE,
     success |-> FALSE, events |-> <<>>]
NotifyIdle ==
    /\ on_complete_callback = FALSE
    /\ async_calls = [t \in Threads |-> NoAsyncCall]

NoWorker == [st |-> "none", result |-> "none"]
NoRequest ==
    [op |-> "none", was_recording |-> FALSE, was_processing |-> FALSE,
     in_flight |-> FALSE, started |-> FALSE, stopped |-> FALSE]
OrchestratorIdle ==
    /\ is_recording = FALSE
    /\ is_processing = FALSE
    /\ worker = NoWorker
    /\ history = <<>>
    /\ last_req = NoRequest

LockIdle ==
    /\ lock = "none"
    /\ callers = [listener |-> "idle", main |-> "idle"]

ExtraIdle == NotifyIdle /\ OrchestratorIdle /\ LockIdle

AuxIdle == ParseIdle /\ ListenerIdle /\ AsyncIdle /\ ExtraIdle

(***************************************************************************)
(* Operations of HotkeyManager.                                            *)
(***************************************************************************)
HotkeyInit ==
    /\ config \in ConfigSet
    /\ key_pressed = FALSE
    /\ modifiers_pressed = {}
    /\ on_start_callback = FALSE
    /\ on_stop_callback = FALSE
    /\ on_toggle_callback = FALSE
    /\ down = {}
    /\ fired = <<>>
    /\ last = [op |-> "init", key |-> None, was_pressed |-> FALSE, cfg |-> NoConfig]
    /\ nUpdates = 0
    /\ drop = NoDrop

\* set_on_start, set_on_stop and set_on_toggle, as the application wires them
connect_signals ==
    /\ ~on_start_callback
    /\ on_start_callback' = TRUE
    /\ on_stop_callback' = TRUE
    /\ on_toggle_callback' = TRUE
    /\ last' = Op("connect_signals", None, NoConfig)
    /\ UNCHANGED <<config, key_pressed, modifiers_pressed, down, fired,
                   nUpdates, drop>>

on_press(key) ==
    /\ IF is_modifier_key(key)
       THEN LET mp == modifiers_pressed \cup {get_modifier_name(key)}
                r == IF /\ is_primary_a_modifier(config)
                        /\ all_hotkey_modifiers_pressed(config, mp)
                        /\ check_modifiers_match(config, mp)
                     THEN press_matched(config, key_pressed, fired,
                                        on_start_callback, on_toggle_callback)
                     ELSE [key_pressed |-> key_pressed, fired |-> fired]
            IN  /\ modifiers_pressed' = mp
                /\ key_pressed' = r.key_pressed
                /\ fired' = r.fired
       ELSE LET r == IF /\ is_primary(config, key)
                        /\ check_modifiers_match(config, modifiers_pressed)
                     THEN press_matched(config, key_pressed, fired,
                                        on_start_callback, on_toggle_callback)
                     ELSE [key_pressed |-> key_pressed, fired |-> fired]
            IN  /\ modifiers_pressed' = modifiers_pressed
                /\ key_pressed' = r.key_pressed
                /\ fired' = r.fired
    /\ UNCHANGED <<config, on_start_callback, on_stop_callback, on_toggle_callback>>

on_release(key) ==
    /\ IF is_modifier_key(key)
       THEN LET mod_name == get_modifier_name(key)
                r == release_modifier(config, key_pressed, modifiers_pressed,
                                      mod_name, fired, on_stop_callback)
            IN  /\ modifiers_pressed' = modifiers_pressed \ {mod_name}
                /\ key_pressed' = r.key_pressed
                /\ fired' = r.fired
       ELSE LET r == IF /\ is_primary(config, key)
                        /\ check_modifiers_match(config, modifiers_pressed)
                     THEN release_matched(config, key_pressed, fired, on_stop_callback)
                     ELSE [key_pressed |-> key_pressed, fired |-> fired]
            IN  /\ modifiers_pressed' = modifiers_pressed
                /\ key_pressed' = r.key_pressed
                /\ fired' = r.fired
    /\ UNCHANGED <<config, on_start_callback, on_stop_callback, on_toggle_callback>>

update_config_keeps_engaged(cfg) ==
    /\ config' = cfg
    /\ key_pressed' = key_pressed
    /\ modifiers_pressed' = {}
    /\ UNCHANGED <<on_start_callback, on_stop_callback, on_toggle_callback, fired>>

update_config(cfg) ==
    /\ config' = cfg
    /\ key_pressed' = FALSE
    /\ modifiers_pressed' = {}
    /\ UNCHANGED <<on_start_callback, on_stop_callback, on_toggle_callback, fired>>

(***************************************************************************)
(* The keyboard: a key that is up is pressed; a held key repeats its press *)
(* (OS key repeat) or is released.                                         *)
(***************************************************************************)
Press(phys) ==
    /\ phys \notin down
    /\ on_press(EventKey(phys, down))
    /\ last' = Op("press", EventKey(phys, down), NoConfig)
    /\ down' = down \cup {phys}
    /\ drop' = [drop EXCEPT !.pressed_since = TRUE]
    /\ UNCHANGED nUpdates

Repeat(phys) ==
    /\ phys \in down
    /\ on_press(EventKey(phys, down))
    /\ last' = Op("repeat", EventKey(phys, down), NoConfig)
    /\ drop' = [drop EXCEPT !.pressed_since = TRUE]
    /\ UNCHANGED <<down, nUpdates>>

Release(phys) ==
    /\ phys \in down
    /\ on_release(EventKey(phys, down))
    /\ last' = Op("release", EventKey(phys, down), NoConfig)
    /\ down' = down \ {phys}
    /\ UNCHANGED <<drop, nUpdates>>

KeyPress == \E phys \in Keyboard : Len(fired) < MaxFired /\ Press(phys)

KeyRepeat == \E phys \in Keyboard : Len(fired) < MaxFired /\ Repeat(phys)

KeyRelease == \E phys \in Keyboard : Len(fired) < MaxFired /\ Release(phys)

UpdateConfig ==
    \E cfg \in ConfigSet :
        /\ nUpdates < MaxUpdates
        /\ update_config(cfg)
        /\ last' = Op("update_config", None, cfg)
        /\ nUpdates' = nUpdates + 1
        /\ drop' = [active |-> key_pressed /\ config.mode = "hold" /\ Registered,
                    mark |-> Len(fired), pressed_since |-> FALSE]
        /\ UNCHANGED down

vars == <<hotkeyVars, gestureVars, injectVars, recorderVars, auxVars>>

HotkeyNext ==
    \/ connect_signals /\ UNCHANGED <<gestureVars, injectVars, recorderVars, auxVars>>
    \/ KeyPress /\ UNCHANGED <<gestureVars, injectVars, recorderVars, auxVars>>
    \/ KeyRepeat /\ UNCHANGED <<gestureVars, injectVars, recorderVars, auxVars>>
    \/ KeyRelease /\ UNCHANGED <<gestureVars, injectVars, recorderVars, auxVars>>
    \/ UpdateConfig /\ UNCHANGED <<gestureVars, injectVars, recorderVars, auxVars>>

GestureIdle == phase = "none" /\ cycles = 0 /\ ordered = TRUE

HotkeySpecInit == HotkeyInit /\ GestureIdle /\ InjectIdle /\ RecorderIdle /\ AuxIdle

SpecHotkey == HotkeySpecInit /\ [][HotkeyNext]_vars

(***************************************************************************)
(* The scripted gesture: full press/release cycles of the configured       *)
(* combination, the modifiers pressed first and the primary key last, the  *)
(* keys released in any order.                                             *)
(***************************************************************************)
HeldNames ==
    {get_modifier_name(K(p)) : p \in {q \in down : is_modifier_key(K(q))}}

\* the recorded names of the keys of the required modifiers
RequiredNames == {recorded_name(n) : n \in config.modifiers}

IsPrimaryPhys(phys) ==
    LET key == EventKey(phys, down)
    IN  IF is_primary_a_modifier(config)
        THEN /\ is_modifier_key(key)
             /\ get_modifier_name(key) = recorded_name(config.primary_key)
        ELSE is_primary(config, key)

GestureInit ==
    /\ config \in ConfigSet
    /\ key_pressed = FALSE
    /\ modifiers_pressed = {}
    /\ on_start_callback = TRUE
    /\ on_stop_callback = TRUE
    /\ on_toggle_callback = TRUE
    /\ down = {}
    /\ fired = <<>>
    /\ last = [op |-> "init", key |-> None, was_pressed |-> FALSE, cfg |-> NoConfig]
    /\ nUpdates = 0
    /\ drop = NoDrop
    /\ phase = "rest"
    /\ cycles = 0
    /\ ordered = TRUE
    /\ InjectIdle
    /\ RecorderIdle
    /\ AuxIdle

GesturePressModifier ==
    \E phys \in KeyboardWithCmd \ down :
        /\ phase \in {"rest", "pressing"}
        /\ cycles < MaxCycles
        /\ is_modifier_key(K(phys))
        /\ get_modifier_name(K(phys)) \in RequiredNames \ HeldNames
        /\ Press(phys)
        /\ phase' = "pressing"
        /\ UNCHANGED <<cycles, ordered, injectVars, recorderVars, auxVars>>

GesturePressPrimary ==
    \E phys \in KeyboardWithCmd \ down :
        /\ phase \in {"rest", "pressing"}
        /\ cycles < MaxCycles
        /\ HeldNames = RequiredNames
        /\ IsPrimaryPhys(phys)
        /\ Press(phys)
        /\ phase' = "held"
        /\ UNCHANGED <<cycles, ordered, injectVars, recorderVars, auxVars>>

GestureReleasePrimary ==
    \E phys \in down :
        /\ phase \in {"held", "releasing"}
        /\ IsPrimaryPhys(phys)
        /\ Release(phys)
        /\ phase' = IF down = {phys} THEN "rest" ELSE "releasing"
        /\ cycles' = IF down = {phys} THEN cycles + 1 ELSE cycles
        /\ UNCHANGED <<ordered, injectVars, recorderVars, auxVars>>

GestureReleaseModifier ==
    \E phys \in down :
        /\ phase \in {"held", "releasing"}
        /\ ~IsPrimaryPhys(phys)
        /\ Release(phys)
        /\ phase' = IF down = {phys} THEN "rest" ELSE "releasing"
        /\ cycles' = IF down = {phys} THEN cycles + 1 ELSE cycles
        /\ ordered' = (ordered /\ \A q \in down : ~IsPrimaryPhys(q))
        /\ UNCHANGED <<injectVars, recorderVars, auxVars>>

GestureNext ==
    \/ GesturePressModifier
    \/ GesturePressPrimary
    \/ GestureReleasePrimary
    \/ GestureReleaseModifier

SpecGesture == GestureInit /\ [][GestureNext]_vars

\* The same script for every configuration parse produces from the tokens
\* shift, ctrl, cmd and meta: for a modifier token the script presses the key
\* MODIFIER_MAP gives for it.
FireableInit ==
    /\ config \in ConfigSetWithAliases
    /\ key_pressed = FALSE
    /\ modifiers_pressed = {}
    /\ on_start_callback = TRUE
    /\ on_stop_callback = TRUE
    /\ on_toggle_callback = TRUE
    /\ down = {}
    /\ fired = <<>>
    /\ last = [op |-> "init", key |-> None, was_pressed |-> FALSE, cfg |-> NoConfig]
    /\ nUpdates = 0
    /\ drop = NoDrop
    /\ phase = "rest"
    /\ cycles = 0
    /\ ordered = TRUE
    /\ InjectIdle
    /\ RecorderIdle
    /\ AuxIdle

SpecFireable == FireableInit /\ [][GestureNext]_vars

(***************************************************************************)
(* A fixed configuration with the callbacks registered, as the application *)
(* runs between two changes of the settings: free key events, no           *)
(* update_config() and no stop().                                          *)
(***************************************************************************)
HotkeyFixedInit ==
    /\ config \in ConfigSetWithAliases
    /\ key_pressed = FALSE
    /\ modifiers_pressed = {}
    /\ on_start_callback = TRUE
    /\ on_stop_callback = TRUE
    /\ on_toggle_callback = TRUE
    /\ down = {}
    /\ fired = <<>>
    /\ last = [op |-> "init", key |-> None, was_pressed |-> FALSE, cfg |-> NoConfig]
    /\ nUpdates = 0
    /\ drop = NoDrop
    /\ GestureIdle
    /\ InjectIdle
    /\ RecorderIdle
    /\ AuxIdle

FixedKeyPress == \E phys \in KeyboardWithCmd : Len(fired) < MaxFired /\ Press(phys)

FixedKeyRepeat == \E phys \in KeyboardWithCmd : Len(fired) < MaxFired /\ Repeat(phys)

FixedKeyRelease == \E phys \in KeyboardWithCmd : Len(fired) < MaxFired /\ Release(phys)

HotkeyFixedNext ==
    \/ FixedKeyPress /\ UNCHANGED <<gestureVars, injectVars, recorderVars, auxVars>>
    \/ FixedKeyRepeat /\ UNCHANGED <<gestureVars, injectVars, recorderVars, auxVars>>
    \/ FixedKeyRelease /\ UNCHANGED <<gestureVars, injectVars, recorderVars, auxVars>>

SpecHotkeyFixed == HotkeyFixedInit /\ [][HotkeyFixedNext]_vars

(***************************************************************************)
(* start() and stop() of HotkeyManager, called by one thread, and the      *)
(* listener thread, which takes a key event from the OS and then handles   *)
(* it in _on_press or _on_release under the lock.  Creating or starting    *)
(* the listener may raise.                                                 *)
(***************************************************************************)
MaxInstalls == 2
MaxSessions == 3
Outcomes == {"ok", "listener_raises", "start_raises"}

\* A variant of start() that reports success when the listener failed.
start_unchecked(was_running, had_listener, was_hooked, outcome) ==
    IF was_running
    THEN [ok |-> TRUE, listener |-> had_listener, running |-> TRUE,
          hooked |-> was_hooked, created |-> 0]
    ELSE [ok |-> TRUE, listener |-> (had_listener \/ outcome # "listener_raises"),
          running |-> TRUE, hooked |-> (outcome = "ok"), created |-> 1]

\* start(): what it returns, the fields it leaves and the listeners it creates
start(was_running, had_listener, was_hooked, outcome) ==
    IF was_running
    THEN [ok |-> TRUE, listener |-> had_listener, running |-> TRUE,
          hooked |-> was_hooked, created |-> 0]
    ELSE CASE outcome = "listener_raises" ->
                [ok |-> FALSE, listener |-> had_listener, running |-> FALSE,
                 hooked |-> FALSE, created |-> 1]
           [] outcome = "start_raises" ->
                [ok |-> FALSE, listener |-> TRUE, running |-> FALSE,
                 hooked |-> FALSE, created |-> 1]
           [] OTHER ->
                [ok |-> TRUE, listener |-> TRUE, running |-> TRUE,
                 hooked |-> TRUE, created |-> 1]

Start ==
    \E outcome \in Outcomes :
        LET r == start(running, listener, hooked, outcome)
        IN  /\ ctl = "idle"
            /\ installs + r.created <= MaxInstalls
            /\ listener' = r.listener
            /\ running' = r.running
            /\ hooked' = r.hooked
            /\ installs' = installs + r.created
            /\ lastcall' = [op |-> "start", ok |-> r.ok, was_running |-> running,
                            outcome |-> IF running THEN "none" ELSE outcome,
                            created |-> installs + r.created]
            /\ UNCHANGED <<ctl, pending, hotkeyVars>>

\* stop(), statement by statement, without the lock
StopCall ==
    /\ ctl = "idle"
    /\ lastcall.op = "start"
    /\ ctl' = "listener_stop"
    /\ lastcall' = [op |-> "stopping", ok |-> FALSE, was_running |-> running,
                    outcome |-> "none", created |-> installs]
    /\ UNCHANGED <<listener, running, hooked, installs, pending, hotkeyVars>>

\* if self._listener: self._listener.stop(); self._listener = None
StopListener ==
    /\ ctl = "listener_stop"
    /\ hooked' = IF listener THEN FALSE ELSE hooked
    /\ listener' = FALSE
    /\ ctl' = "set_running"
    /\ UNCHANGED <<running, installs, lastcall, pending, hotkeyVars>>

\* self._running = False
StopSetRunning ==
    /\ ctl = "set_running"
    /\ running' = FALSE
    /\ ctl' = "clear_key_pressed"
    /\ UNCHANGED <<listener, hooked, installs, lastcall, pending, hotkeyVars>>

\* self._key_pressed = False
StopClearKeyPressed ==
    /\ ctl = "clear_key_pressed"
    /\ key_pressed' = FALSE
    /\ ctl' = "clear_modifiers"
    /\ UNCHANGED <<listenerFields, installs, lastcall, pending, config,
                   modifiers_pressed, on_start_callback, on_stop_callback,
                   on_toggle_callback, down, fired, last, nUpdates, drop>>

\* self._modifiers_pressed.clear(), and stop() returns
StopClearModifiers ==
    /\ ctl = "clear_modifiers"
    /\ modifiers_pressed' = {}
    /\ ctl' = "idle"
    /\ lastcall' = [lastcall EXCEPT !.op = "stop", !.ok = TRUE]
    /\ UNCHANGED <<listenerFields, installs, pending, config, key_pressed,
                   on_start_callback, on_stop_callback, on_toggle_callback,
                   down, fired, last, nUpdates, drop>>

\* the listener thread takes the next key event while the listener runs
HookTake ==
    \E phys \in Keyboard, op \in {"press", "release"} :
        /\ hooked
        /\ pending = NoPending
        /\ Len(fired) < MaxFired
        /\ op = "release" => phys \in down
        /\ pending' = [op |-> op, key |-> EventKey(phys, down)]
        /\ down' = IF op = "press" THEN down \cup {phys} ELSE down \ {phys}
        /\ UNCHANGED <<listenerFields, installs, ctl, lastcall, config, key_pressed,
                       modifiers_pressed, on_start_callback, on_stop_callback,
                       on_toggle_callback, fired, last, nUpdates, drop>>

\* _on_press or _on_release for the event taken, under the lock
HookHandle ==
    /\ pending # NoPending
    /\ IF pending.op = "press" THEN on_press(pending.key) ELSE on_release(pending.key)
    /\ last' = Op(pending.op, pending.key, NoConfig)
    /\ pending' = NoPending
    /\ UNCHANGED <<listenerFields, installs, ctl, lastcall, down, nUpdates, drop>>

ListenerNext ==
    \/ Start /\ UNCHANGED <<gestureVars, injectVars, recorderVars, parseVars, asyncVars, extraVars>>
    \/ StopCall /\ UNCHANGED <<gestureVars, injectVars, recorderVars, parseVars, asyncVars, extraVars>>
    \/ StopListener /\ UNCHANGED <<gestureVars, injectVars, recorderVars, parseVars, asyncVars, extraVars>>
    \/ StopSetRunning /\ UNCHANGED <<gestureVars, injectVars, recorderVars, parseVars, asyncVars, extraVars>>
    \/ StopClearKeyPressed /\ UNCHANGED <<gestureVars, injectVars, recorderVars, parseVars, asyncVars, extraVars>>
    \/ StopClearModifiers /\ UNCHANGED <<gestureVars, injectVars, recorderVars, parseVars, asyncVars, extraVars>>
    \/ HookTake /\ UNCHANGED <<gestureVars, injectVars, recorderVars, parseVars, asyncVars, extraVars>>
    \/ HookHandle /\ UNCHANGED <<gestureVars, injectVars, recorderVars, parseVars, asyncVars, extraVars>>

\* one combination with a character key and one made of a modifier only
ListenerConfigs ==
    {[mode |-> "hold", modifiers |-> {"shift"}, primary_key |-> "a"],
     [mode |-> "toggle", modifiers |-> {}, primary_key |-> "ctrl"]}

ListenerSpecInit ==
    /\ config \in ListenerConfigs
    /\ key_pressed = FALSE
    /\ modifiers_pressed = {}
    /\ on_start_callback = TRUE
    /\ on_stop_callback = TRUE
    /\ on_toggle_callback = TRUE
    /\ down = {}
    /\ fired = <<>>
    /\ last = [op |-> "init", key |-> None, was_pressed |-> FALSE, cfg |-> NoConfig]
    /\ nUpdates = 0
    /\ drop = NoDrop
    /\ GestureIdle
    /\ InjectIdle
    /\ RecorderIdle
    /\ AuxIdle

SpecListener == ListenerSpecInit /\ [][ListenerNext]_vars

(***************************************************************************)
(* HotkeyConfig.parse() applied to every combination string of up to       *)
(* MaxParts parts, and to the serialization of what it returned.           *)
(***************************************************************************)
ParseSpecInit ==
    /\ HotkeyInit /\ config = [mode |-> "hold", modifiers |-> {}, primary_key |-> "f1"]
    /\ GestureIdle
    /\ InjectIdle
    /\ RecorderIdle
    /\ ParseInit
    /\ ListenerIdle
    /\ AsyncIdle
    /\ ExtraIdle

ParseNext ==
    ParseRoundTrip /\ UNCHANGED <<hotkeyVars, gestureVars, injectVars, recorderVars,
                                  listenerVars, asyncVars, extraVars>>

SpecParse == ParseSpecInit /\ [][ParseNext]_vars

(***************************************************************************)
(* update_from_string(): the string is parsed and the configuration is     *)
(* installed.  Among the strings are the empty string, which is one empty  *)
(* part, and strings with an empty part such as 'ctrl+'; the keys are then *)
(* pressed and released.                                                   *)
(***************************************************************************)
UpdateParts ==
    [name : {"ctrl", "a", ""}, upper : {FALSE}, padded : {FALSE},
     underscored : {FALSE}]
UpdateStrings == UNION {[1..n -> UpdateParts] : n \in 1..MaxParts}

\* the HotkeyConfig that parse() builds: cls(hotkey, mode, modifiers, primary_key)
HotkeyConfig(cfg, mode) ==
    [mode |-> mode, modifiers |-> {m.name : m \in cfg.modifiers},
     primary_key |-> cfg.primary_key.name]

\* config = HotkeyConfig.parse(hotkey_string, mode); self.update_config(config)
update_from_string ==
    \E mode \in Modes :
        LET cfg == parse(parse_call.hotkey_string)
        IN  /\ ~parse_call.done
            /\ update_config(HotkeyConfig(cfg, mode))
            /\ last' = Op("update_config", None, HotkeyConfig(cfg, mode))
            /\ nUpdates' = nUpdates + 1
            /\ drop' = [active |-> key_pressed /\ config.mode = "hold" /\ Registered,
                        mark |-> Len(fired), pressed_since |-> FALSE]
            /\ parse_call' = [parse_call EXCEPT !.done = TRUE, !.cfg = cfg,
                                                !.returned = "None",
                                                !.installed = TRUE]
            /\ UNCHANGED down

UpdateFromStringNext ==
    \/ connect_signals
          /\ UNCHANGED <<gestureVars, injectVars, recorderVars, auxVars>>
    \/ update_from_string
          /\ UNCHANGED <<gestureVars, injectVars, recorderVars, listenerVars,
                         asyncVars, extraVars>>
    \/ KeyPress /\ UNCHANGED <<gestureVars, injectVars, recorderVars, auxVars>>
    \/ KeyRepeat /\ UNCHANGED <<gestureVars, injectVars, recorderVars, auxVars>>
    \/ KeyRelease /\ UNCHANGED <<gestureVars, injectVars, recorderVars, auxVars>>

UpdateFromStringInit ==
    /\ HotkeyInit /\ config = [mode |-> "hold", modifiers |-> {}, primary_key |-> "f1"]
    /\ GestureIdle
    /\ InjectIdle
    /\ RecorderIdle
    /\ \E hotkey_string \in UpdateStrings :
          parse_call = [NoParse EXCEPT !.hotkey_string = hotkey_string]
    /\ ListenerIdle
    /\ AsyncIdle
    /\ ExtraIdle

SpecUpdateFromString == UpdateFromStringInit /\ [][UpdateFromStringNext]_vars

InjectNext ==
    \/ Inject /\ UNCHANGED <<hotkeyVars, gestureVars, recorderVars, auxVars>>
    \/ InjectReturned /\ UNCHANGED <<hotkeyVars, gestureVars, recorderVars, auxVars>>
    \/ SetInjectionConfig /\ UNCHANGED <<hotkeyVars, gestureVars, recorderVars, auxVars>>
    \/ UserCopy /\ UNCHANGED <<hotkeyVars, gestureVars, recorderVars, auxVars>>

InjectSpecInit ==
    /\ HotkeyInit /\ config = [mode |-> "hold", modifiers |-> {}, primary_key |-> "f1"]
    /\ GestureIdle
    /\ InjectInit
    /\ RecorderIdle
    /\ AuxIdle

SpecInject == InjectSpecInit /\ [][InjectNext]_vars

(***************************************************************************)
(* inject_async(): each call runs inject() on a thread of its own, and the *)
(* threads share the injector and the clipboard.  The clipboard delivery   *)
(* is followed statement by statement; no OS call raises on its own.       *)
(***************************************************************************)
InFlight(t) == inj_threads[t].pc \notin {"idle", "done"}

AtStep(t, step) == inj_threads[t].pc = step

GoTo(t, step) == [inj_threads EXCEPT ![t].pc = step]

\* thread = threading.Thread(target=_inject); thread.start(); inject() prepares the text
inject_async(t) ==
    \E text0 \in Texts :
        /\ AtStep(t, "idle")
        /\ strip(text0) # <<>>
        /\ inj_threads' =
              [u \in Threads |->
                  IF u = t
                  THEN [pc |-> "backup", text |-> prepare(text0, inj_config),
                        overlapped |-> \E v \in Threads \ {t} : InFlight(v)]
                  ELSE [inj_threads[u] EXCEPT
                            !.overlapped = @ \/ InFlight(u)]]
        /\ clip_at_start' =
              IF \A u \in Threads : AtStep(u, "idle") THEN clipboard ELSE clip_at_start
        /\ UNCHANGED <<inj_config, clipboard_backup, clipboard, call>>

\* _backup_clipboard(): self._clipboard_backup = pyperclip.paste()
async_backup(t) ==
    /\ AtStep(t, "backup")
    /\ clipboard_backup' = IF inj_config.preserve_clipboard
                            THEN {clipboard} ELSE clipboard_backup
    /\ inj_threads' = GoTo(t, "copy")
    /\ UNCHANGED <<inj_config, clipboard, call, clip_at_start>>

\* pyperclip.copy(text)
async_copy(t) ==
    /\ AtStep(t, "copy")
    /\ clipboard' = inj_threads[t].text
    /\ inj_threads' = GoTo(t, "keys")
    /\ UNCHANGED <<inj_config, clipboard_backup, call, clip_at_start>>

\* the paste keystroke
async_keys(t) ==
    /\ AtStep(t, "keys")
    /\ inj_threads' = GoTo(t, "restore")
    /\ UNCHANGED <<inj_config, clipboard_backup, clipboard, call, clip_at_start>>

\* _restore_clipboard(): the test of preserve_clipboard and of the backup
async_restore(t) ==
    /\ AtStep(t, "restore")
    /\ inj_threads' =
          GoTo(t, IF ~inj_config.preserve_clipboard \/ clipboard_backup = {}
                  THEN "done" ELSE "restore_copy")
    /\ UNCHANGED <<inj_config, clipboard_backup, clipboard, call, clip_at_start>>

\* pyperclip.copy(self._clipboard_backup); copying None raises and is caught
async_restore_copy(t) ==
    /\ AtStep(t, "restore_copy")
    /\ clipboard' = IF clipboard_backup = {}
                     THEN clipboard
                     ELSE CHOOSE b \in clipboard_backup : TRUE
    /\ inj_threads' = GoTo(t, "restore_finally")
    /\ UNCHANGED <<inj_config, clipboard_backup, call, clip_at_start>>

\* finally: self._clipboard_backup = None
async_restore_finally(t) ==
    /\ AtStep(t, "restore_finally")
    /\ clipboard_backup' = {}
    /\ inj_threads' = GoTo(t, "done")
    /\ UNCHANGED <<inj_config, clipboard, call, clip_at_start>>

InjectAsyncNext ==
    \/ \E t \in Threads :
          inject_async(t) /\ UNCHANGED <<hotkeyVars, gestureVars, recorderVars,
                                         parseVars, listenerVars, extraVars>>
    \/ \E t \in Threads :
          async_backup(t) /\ UNCHANGED <<hotkeyVars, gestureVars, recorderVars,
                                         parseVars, listenerVars, extraVars>>
    \/ \E t \in Threads :
          async_copy(t) /\ UNCHANGED <<hotkeyVars, gestureVars, recorderVars,
                                       parseVars, listenerVars, extraVars>>
    \/ \E t \in Threads :
          async_keys(t) /\ UNCHANGED <<hotkeyVars, gestureVars, recorderVars,
                                       parseVars, listenerVars, extraVars>>
    \/ \E t \in Threads :
          async_restore(t) /\ UNCHANGED <<hotkeyVars, gestureVars, recorderVars,
                                          parseVars, listenerVars, extraVars>>
    \/ \E t \in Threads :
          async_restore_copy(t) /\ UNCHANGED <<hotkeyVars, gestureVars, recorderVars,
                                               parseVars, listenerVars, extraVars>>
    \/ \E t \in Threads :
          async_restore_finally(t) /\ UNCHANGED <<hotkeyVars, gestureVars, recorderVars,
                                                  parseVars, listenerVars, extraVars>>

\* the configurations whose first delivery is the clipboard
InjectAsyncInit ==
    /\ HotkeyInit /\ config = [mode |-> "hold", modifiers |-> {}, primary_key |-> "f1"]
    /\ GestureIdle
    /\ InjectInit
    /\ inj_config.method # "keyboard"
    /\ RecorderIdle
    /\ AuxIdle

SpecInjectAsync == InjectAsyncInit /\ [][InjectAsyncNext]_vars

(***************************************************************************)
(* inject_async() and its callbacks: _inject() runs inject(), then the     *)
(* per-call callback if one was given, then the completion callback if one *)
(* is registered.  The callbacks return.                                   *)
(***************************************************************************)
\* set_on_complete_callback(callback)
set_on_complete_callback ==
    /\ ~on_complete_callback
    /\ on_complete_callback' = TRUE
    /\ UNCHANGED <<async_calls, injectVars>>

\* the texts handed to inject_async(): an empty one and one to deliver
AsyncTexts == {<<>>, <<"h">>}

\* inject_async(text, callback): thread.start()
inject_async_call(t) ==
    \E text \in AsyncTexts, callback \in BOOLEAN :
        /\ async_calls[t].pc = "idle"
        /\ async_calls' =
              [async_calls EXCEPT ![t] =
                  [pc |-> "inject", text |-> text, callback |-> callback,
                   registered |-> on_complete_callback, success |-> FALSE,
                   events |-> <<>>]]
        /\ UNCHANGED <<on_complete_callback, injectVars>>

\* success = self.inject(text)
inject_async_inject(t) ==
    \E f \in Failures :
        LET r == inject([clipboard |-> clipboard, backup |-> clipboard_backup,
                         app |-> <<>>, copied |-> FALSE, read |-> FALSE],
                        async_calls[t].text, inj_config, f)
        IN  /\ async_calls[t].pc = "inject"
            /\ clipboard' = r.st.clipboard
            /\ clipboard_backup' = r.st.backup
            /\ async_calls' = [async_calls EXCEPT ![t].pc = "callback",
                                                  ![t].success = r.ok]
            /\ UNCHANGED <<on_complete_callback, inj_config, call>>

\* if callback: callback(success)
inject_async_callback(t) ==
    /\ async_calls[t].pc = "callback"
    /\ async_calls' =
          [async_calls EXCEPT
              ![t].pc = "complete",
              ![t].events =
                  IF async_calls[t].callback
                  THEN Append(@, [cb |-> "callback", arg |-> async_calls[t].success])
                  ELSE @]
    /\ UNCHANGED <<on_complete_callback, injectVars>>

\* A variant of the last step that notifies of successful injections only.
inject_async_complete_on_success(t) ==
    /\ async_calls[t].pc = "complete"
    /\ async_calls' =
          [async_calls EXCEPT
              ![t].pc = "done",
              ![t].events =
                  IF on_complete_callback /\ async_calls[t].success
                  THEN Append(@, [cb |-> "complete", arg |-> TRUE])
                  ELSE @]
    /\ UNCHANGED <<on_complete_callback, injectVars>>

\* if self._on_complete_callback: self._on_complete_callback()
inject_async_complete(t) ==
    /\ async_calls[t].pc = "complete"
    /\ async_calls' =
          [async_calls EXCEPT
              ![t].pc = "done",
              ![t].events =
                  IF on_complete_callback
                  THEN Append(@, [cb |-> "complete", arg |-> TRUE])
                  ELSE @]
    /\ UNCHANGED <<on_complete_callback, injectVars>>

\* the steps of the thread of one call
inject_thread(t) ==
    /\ \/ inject_async_inject(t)
       \/ inject_async_callback(t)
       \/ inject_async_complete(t)
    /\ UNCHANGED <<hotkeyVars, gestureVars, recorderVars, parseVars,
                   listenerVars, asyncVars, orchVars, lockVars>>

NotifyNext ==
    \/ set_on_complete_callback
          /\ UNCHANGED <<hotkeyVars, gestureVars, recorderVars, parseVars,
                         listenerVars, asyncVars, orchVars, lockVars>>
    \/ \E t \in Threads :
          inject_async_call(t)
              /\ UNCHANGED <<hotkeyVars, gestureVars, recorderVars, parseVars,
                             listenerVars, asyncVars, orchVars, lockVars>>
    \/ \E t \in Threads : inject_thread(t)

NotifyInit ==
    /\ HotkeyInit /\ config = [mode |-> "hold", modifiers |-> {}, primary_key |-> "f1"]
    /\ GestureIdle
    /\ InjectInit
    /\ inj_config.add_trailing_space /\ inj_config.preserve_clipboard
    /\ clipboard = <<"c">>
    /\ RecorderIdle
    /\ AuxIdle

\* a started thread is scheduled until _inject() has returned
SpecNotify ==
    /\ NotifyInit
    /\ [][NotifyNext]_vars
    /\ \A t \in Threads : WF_vars(inject_thread(t))

(***************************************************************************)
(* LocalVoiceApp: the Start, Stop and Toggle requests, which the main      *)
(* thread handles one at a time, and the transcription worker.  The        *)
(* recorder's start_recording() succeeds or fails, its stop_recording()    *)
(* returns audio or none, the model loads or does not, and the worker ends *)
(* with a text, an empty text or an error.                                 *)
(***************************************************************************)
Outcomes_of_transcription == {"text", "empty", "error"}

Request(op, started, stopped) ==
    [op |-> op, was_recording |-> is_recording, was_processing |-> is_processing,
     in_flight |-> worker.st = "running", started |-> started,
     stopped |-> stopped]

\* A variant of _start_recording() that tests the recording flag only.
start_recording_unless_recording(op) ==
    IF is_recording
    THEN /\ last_req' = Request(op, FALSE, FALSE)
         /\ UNCHANGED <<is_recording, is_processing, worker, history>>
    ELSE /\ Len(history) < MaxSessions
         /\ \E ok \in BOOLEAN : is_recording' = ok
         /\ last_req' = Request(op, TRUE, FALSE)
         /\ UNCHANGED <<is_processing, worker, history>>

\* _start_recording(): skipped while recording or processing
start_recording(op) ==
    IF is_recording \/ is_processing
    THEN /\ last_req' = Request(op, FALSE, FALSE)
         /\ UNCHANGED <<is_recording, is_processing, worker, history>>
    ELSE /\ Len(history) < MaxSessions
         /\ \E ok \in BOOLEAN : is_recording' = ok
         /\ last_req' = Request(op, TRUE, FALSE)
         /\ UNCHANGED <<is_processing, worker, history>>

\* _start_transcription(): the model does not load, or the worker is started
start_transcription ==
    \E loaded \in BOOLEAN :
        IF ~loaded
        THEN /\ is_processing' = FALSE
             /\ history' = Append(history, "load_failed")
             /\ UNCHANGED worker
        ELSE /\ is_processing' = TRUE
             /\ worker' = [st |-> "running", result |-> "none"]
             /\ UNCHANGED history

\* _stop_recording(): skipped while not recording
stop_recording(op) ==
    IF ~is_recording
    THEN /\ last_req' = Request(op, FALSE, FALSE)
         /\ UNCHANGED <<is_recording, is_processing, worker, history>>
    ELSE /\ last_req' = Request(op, FALSE, TRUE)
         /\ is_recording' = FALSE
         /\ \E audio \in BOOLEAN :
              IF audio
              THEN start_transcription
              ELSE /\ history' = Append(history, "no_audio")
                   /\ UNCHANGED <<is_processing, worker>>

StartRequest == start_recording("start")

StopRequest == stop_recording("stop")

\* _toggle_recording()
ToggleRequest ==
    IF is_recording THEN stop_recording("toggle") ELSE start_recording("toggle")

\* TranscriptionWorker.run() on the transcription thread: finally finished.emit()
worker_run ==
    /\ worker.st = "running"
    /\ \E result \in Outcomes_of_transcription :
          worker' = [st |-> "finished", result |-> result]
    /\ UNCHANGED <<is_recording, is_processing, history, last_req>>

\* A variant of _on_worker_finished() that leaves the flag set after an error.
on_worker_finished_keeps_flag ==
    /\ worker.st = "finished"
    /\ worker' = NoWorker
    /\ is_processing' = (is_processing /\ worker.result = "error")
    /\ history' = Append(history, worker.result)
    /\ UNCHANGED <<is_recording, last_req>>

\* _on_worker_finished() on the main thread
on_worker_finished ==
    /\ worker.st = "finished"
    /\ worker' = NoWorker
    /\ is_processing' = FALSE
    /\ history' = Append(history, worker.result)
    /\ UNCHANGED <<is_recording, last_req>>

\* _quit(): the flags are cleared and a running transcription thread is
\* waited for, then terminated
quit ==
    /\ is_recording' = FALSE
    /\ is_processing' = FALSE
    /\ IF worker.st = "running"
       THEN \/ worker' = NoWorker
            \/ \E result \in Outcomes_of_transcription :
                  worker' = [st |-> "finished", result |-> result]
       ELSE UNCHANGED worker
    /\ UNCHANGED <<history, last_req>>

OrchestratorNext ==
    \/ StartRequest
          /\ UNCHANGED <<hotkeyVars, gestureVars, injectVars, recorderVars,
                         parseVars, listenerVars, asyncVars, notifyVars,
                   lockVars>>
    \/ StopRequest
          /\ UNCHANGED <<hotkeyVars, gestureVars, injectVars, recorderVars,
                         parseVars, listenerVars, asyncVars, notifyVars,
                   lockVars>>
    \/ ToggleRequest
          /\ UNCHANGED <<hotkeyVars, gestureVars, injectVars, recorderVars,
                         parseVars, listenerVars, asyncVars, notifyVars,
                   lockVars>>
    \/ worker_run
          /\ UNCHANGED <<hotkeyVars, gestureVars, injectVars, recorderVars,
                         parseVars, listenerVars, asyncVars, notifyVars,
                   lockVars>>
    \/ on_worker_finished
          /\ UNCHANGED <<hotkeyVars, gestureVars, injectVars, recorderVars,
                         parseVars, listenerVars, asyncVars, notifyVars,
                   lockVars>>
    \/ quit
          /\ UNCHANGED <<hotkeyVars, gestureVars, injectVars, recorderVars,
                         parseVars, listenerVars, asyncVars, notifyVars,
                   lockVars>>

OrchestratorInit ==
    /\ HotkeyInit /\ config = [mode |-> "hold", modifiers |-> {}, primary_key |-> "f1"]
    /\ GestureIdle
    /\ InjectIdle
    /\ RecorderIdle
    /\ AuxIdle

SpecOrchestrator == OrchestratorInit /\ [][OrchestratorNext]_vars

\* the worker's run() returns, and the event loop of the main thread delivers
\* its finished signal
WorkerEnds ==
    /\ worker_run \/ on_worker_finished
    /\ UNCHANGED <<hotkeyVars, gestureVars, injectVars, recorderVars,
                   parseVars, listenerVars, asyncVars, notifyVars,
                   lockVars>>

SpecOrchestratorLive == SpecOrchestrator /\ WF_vars(WorkerEnds)

(***************************************************************************)
(* HotkeyManager._lock.  _on_press() and _on_release() run on the listener *)
(* thread inside "with self._lock", and so does the callback they invoke;  *)
(* update_config() and is_hotkey_pressed() take the same lock, from the    *)
(* main thread or from within a callback.  The lock is a threading.Lock:   *)
(* a thread that holds it and asks for it again waits for itself.          *)
(***************************************************************************)
Waits == {"wait_update_config", "wait_is_hotkey_pressed"}

\* the handler invoked a callback: the callback runs with the lock held
enter_callback ==
    IF Len(fired') > Len(fired)
    THEN /\ lock' = "listener"
         /\ callers' = [callers EXCEPT !.listener = "callback"]
    ELSE UNCHANGED <<lock, callers>>

\* _on_press(key): with self._lock
LockedKeyPress ==
    /\ callers.listener = "idle" /\ lock = "none"
    /\ KeyPress \/ KeyRepeat
    /\ enter_callback

\* _on_release(key): with self._lock
LockedKeyRelease ==
    /\ callers.listener = "idle" /\ lock = "none"
    /\ KeyRelease
    /\ enter_callback

\* the callback returns, and the handler leaves the with block
CallbackReturns ==
    /\ callers.listener = "callback"
    /\ callers' = [callers EXCEPT !.listener = "idle"]
    /\ lock' = "none"
    /\ UNCHANGED hotkeyVars

\* the callback calls update_config() or is_hotkey_pressed() of the manager
CallbackCallsManager ==
    /\ callers.listener = "callback"
    /\ \E w \in Waits : callers' = [callers EXCEPT !.listener = w]
    /\ UNCHANGED <<lock, hotkeyVars>>

\* the main thread calls update_config() or is_hotkey_pressed()
MainCallsManager ==
    /\ callers.main = "idle"
    /\ \E w \in Waits :
          /\ w = "wait_update_config" => nUpdates < MaxUpdates
          /\ callers' = [callers EXCEPT !.main = w]
    /\ UNCHANGED <<lock, hotkeyVars>>

\* with self._lock: the caller gets the lock once it is free, runs
\* update_config() or is_hotkey_pressed() and gives the lock back
LockAcquire(t) ==
    /\ callers[t] \in Waits
    /\ lock = "none"
    /\ IF callers[t] = "wait_update_config"
       THEN UpdateConfig
       ELSE UNCHANGED hotkeyVars
    /\ callers' = [callers EXCEPT ![t] = IF t = "listener" THEN "callback" ELSE "idle"]
    /\ UNCHANGED lock

LockNext ==
    \/ connect_signals
          /\ UNCHANGED <<gestureVars, injectVars, recorderVars, parseVars,
                         listenerVars, asyncVars, notifyVars, orchVars, lockVars>>
    \/ LockedKeyPress
          /\ UNCHANGED <<gestureVars, injectVars, recorderVars, parseVars,
                         listenerVars, asyncVars, notifyVars, orchVars>>
    \/ LockedKeyRelease
          /\ UNCHANGED <<gestureVars, injectVars, recorderVars, parseVars,
                         listenerVars, asyncVars, notifyVars, orchVars>>
    \/ CallbackReturns
          /\ UNCHANGED <<gestureVars, injectVars, recorderVars, parseVars,
                         listenerVars, asyncVars, notifyVars, orchVars>>
    \/ CallbackCallsManager
          /\ UNCHANGED <<gestureVars, injectVars, recorderVars, parseVars,
                         listenerVars, asyncVars, notifyVars, orchVars>>
    \/ MainCallsManager
          /\ UNCHANGED <<gestureVars, injectVars, recorderVars, parseVars,
                         listenerVars, asyncVars, notifyVars, orchVars>>
    \/ \E t \in {"listener", "main"} :
          LockAcquire(t)
              /\ UNCHANGED <<gestureVars, injectVars, recorderVars, parseVars,
                             listenerVars, asyncVars, notifyVars, orchVars>>

LockInit ==
    /\ HotkeyInit /\ config \in ListenerConfigs
    /\ GestureIdle
    /\ InjectIdle
    /\ RecorderIdle
    /\ AuxIdle

SpecLock == LockInit /\ [][LockNext]_vars

(***************************************************************************)
(* The recorder driven by one control thread (SpecRecorder), or by one     *)
(* thread that starts and another that stops (SpecRecorderThreads), with   *)
(* the audio thread delivering chunks while a stream runs.                 *)
(***************************************************************************)
RecorderNext ==
    \/ set_vad_callback /\ UNCHANGED <<hotkeyVars, gestureVars, injectVars, auxVars>>
    \/ set_audio_callback /\ UNCHANGED <<hotkeyVars, gestureVars, injectVars, auxVars>>
    \/ \E t \in Threads :
          start_recording_call(t) /\ UNCHANGED <<hotkeyVars, gestureVars, injectVars, auxVars>>
    \/ \E t \in Threads : clear_buffer(t) /\ UNCHANGED <<hotkeyVars, gestureVars, injectVars, auxVars>>
    \/ \E t \in Threads :
          start_set_recording(t) /\ UNCHANGED <<hotkeyVars, gestureVars, injectVars, auxVars>>
    \/ \E t \in Threads : start_probe(t) /\ UNCHANGED <<hotkeyVars, gestureVars, injectVars, auxVars>>
    \/ \E t \in Threads : start_open(t) /\ UNCHANGED <<hotkeyVars, gestureVars, injectVars, auxVars>>
    \/ \E t \in Threads :
          start_stream_start(t) /\ UNCHANGED <<hotkeyVars, gestureVars, injectVars, auxVars>>
    \/ \E t \in Threads :
          stop_recording_call(t) /\ UNCHANGED <<hotkeyVars, gestureVars, injectVars, auxVars>>
    \/ \E t \in Threads :
          stop_set_stopping(t) /\ UNCHANGED <<hotkeyVars, gestureVars, injectVars, auxVars>>
    \/ \E t \in Threads :
          stop_stream_stop(t) /\ UNCHANGED <<hotkeyVars, gestureVars, injectVars, auxVars>>
    \/ \E t \in Threads :
          stop_get_audio_data(t) /\ UNCHANGED <<hotkeyVars, gestureVars, injectVars, auxVars>>
    \/ \E t \in Threads : stop_set_idle(t) /\ UNCHANGED <<hotkeyVars, gestureVars, injectVars, auxVars>>
    \/ \E t \in Threads : stop_return(t) /\ UNCHANGED <<hotkeyVars, gestureVars, injectVars, auxVars>>
    \/ audio_callback /\ UNCHANGED <<hotkeyVars, gestureVars, injectVars, auxVars>>
    \/ audio_callback_append /\ UNCHANGED <<hotkeyVars, gestureVars, injectVars, auxVars>>
    \/ audio_callback_detect /\ UNCHANGED <<hotkeyVars, gestureVars, injectVars, auxVars>>

OtherIdle ==
    /\ HotkeyInit /\ config = [mode |-> "hold", modifiers |-> {}, primary_key |-> "f1"]
    /\ GestureIdle
    /\ InjectIdle
    /\ AuxIdle

RecorderSpecInit ==
    /\ OtherIdle
    /\ RecorderInit
    /\ may = [t \in Threads |-> IF t = "t1" THEN {"start", "stop"} ELSE {}]
    /\ resample_call = NoResample

SpecRecorder == RecorderSpecInit /\ [][RecorderNext]_vars

RecorderThreadsInit ==
    /\ OtherIdle
    /\ RecorderInit
    /\ may = [t \in Threads |-> IF t = "t1" THEN {"start"} ELSE {"stop"}]
    /\ resample_call = NoResample

SpecRecorderThreads == RecorderThreadsInit /\ [][RecorderNext]_vars

(***************************************************************************)
(* _resample_audio() applied to buffers of every length up to MaxSamples.  *)
(***************************************************************************)
ResampleInit ==
    /\ OtherIdle
    /\ RecorderInit
    /\ may = [t \in Threads |-> {}]
    /\ \E n \in 0..MaxSamples, s \in Rates, t \in Rates,
          via \in {"resample", "stop"} :
          /\ via = "stop" => t = sample_rate
          /\ resample_call = [n |-> n, source |-> s, target |-> t, out |-> -1,
                              via |-> via, called |-> FALSE]

\* stop_recording() returning a buffer of n frames recorded at the source rate
StopResample ==
    /\ resample_call.out = -1
    /\ resample_call.via = "stop"
    /\ LET data == IF resample_call.n = 0
                   THEN NoData
                   ELSE [none |-> FALSE, frames |-> <<>>,
                         samples |-> resample_call.n]
           res == stop_resampled(data, resample_call.source)
       IN  resample_call' = [resample_call EXCEPT !.out = res.data.samples,
                                                  !.called = res.called]
    /\ UNCHANGED <<state, audio_buffer, stream, voice_detected, max_abs_level,
                   active_sample_rate, on_vad_callback, on_audio_callback, may, pc,
                   audio_data, ret, cb, leaked, delivered, starts, accepted,
                   vad_events, raw_events, session, probe>>

Resample ==
    /\ resample_call.out = -1
    /\ resample_call.via = "resample"
    /\ resample_call' =
          [resample_call EXCEPT !.out =
              resample_audio(resample_call.n, resample_call.source,
                             resample_call.target)]
    /\ UNCHANGED <<state, audio_buffer, stream, voice_detected, max_abs_level,
                   active_sample_rate, on_vad_callback, on_audio_callback, may, pc,
                   audio_data, ret, cb, leaked, delivered, starts, accepted,
                   vad_events, raw_events, session, probe>>

ResampleNext ==
    (Resample \/ StopResample) /\ UNCHANGED <<hotkeyVars, gestureVars, injectVars, auxVars>>

SpecResample == ResampleInit /\ [][ResampleNext]_vars

(***************************************************************************)
(* Properties of the hotkey state machine.                                 *)
(***************************************************************************)
IsPress(l) == l.op \in {"press", "repeat"}
FiredBy(cfg) == IF cfg.mode = "hold" THEN "Start" ELSE "Toggle"

\* C1: in Hold mode with the callbacks registered, pressing every required
\* modifier, then the primary key, then releasing the primary key and then the
\* modifiers fires exactly Start then Stop and leaves the engaged flag false.
C1_HoldGestureStartStop ==
    /\ (config.mode = "hold" /\ cycles = 0 /\ phase = "held")
            => (fired = <<"Start">> /\ key_pressed)
    /\ (config.mode = "hold" /\ cycles = 1 /\ phase = "rest" /\ ordered)
            => (fired = <<"Start", "Stop">> /\ ~key_pressed)

C1_Witness ==
    /\ config = [mode |-> "hold", modifiers |-> {"shift", "ctrl"}, primary_key |-> "a"]
    /\ cycles = 1 /\ phase = "rest" /\ ordered
    /\ fired = <<"Start", "Stop">>
    /\ last.op = "release" /\ is_modifier_key(last.key)

\* C2: for a combination whose primary key is not a modifier, a release of the
\* primary key processed while engaged clears the engaged flag (and fires one
\* Stop in Hold mode) whatever modifiers are held; so the engaged flag is false
\* whenever no key is held.
C2_PrimaryReleaseAlwaysDisengages ==
    [][/\ (/\ last'.op = "release"
           /\ Registered
           /\ ~is_primary_a_modifier(config)
           /\ is_primary(config, last'.key)
           /\ key_pressed)
          => (/\ ~key_pressed'
              /\ (config.mode = "hold" => fired' = Append(fired, "Stop"))
              /\ (config.mode = "toggle" => fired' = fired))
       /\ (Registered' /\ ~is_primary_a_modifier(config') /\ down' = {})
          => ~key_pressed']_vars

\* C3: in Toggle mode every full press/release cycle of the combination fires
\* exactly one Toggle, on the press edge that completes the combination, and
\* no other event of the cycle fires anything.
C3_ToggleOncePerCycle ==
    [][config.mode = "toggle"
        => IF phase # "held" /\ phase' = "held"
           THEN fired' = Append(fired, "Toggle")
           ELSE fired' = fired]_vars

\* C4: a press event processed while the engaged flag is true (a key repeat of
\* the primary key or of a held modifier, or any other press) fires nothing.
C4_NoFireWhileEngaged ==
    [][(IsPress(last') /\ key_pressed) => (fired' = fired /\ key_pressed')]_vars

C4_Witness ==
    /\ last.op = "repeat" /\ last.was_pressed
    /\ is_primary(config, last.key)
    /\ Registered /\ key_pressed
    /\ Len(fired) = 1

\* C5: when the primary key is not a modifier, a press of the primary key with
\* the engaged flag false fires Start (Hold) or Toggle (Toggle) if and only if
\* the held-modifier set equals config.modifiers, and fires nothing otherwise.
C5_PrimaryPressFiresIffExactModifiers ==
    [][(/\ IsPress(last')
        /\ Registered
        /\ ~is_primary_a_modifier(config)
        /\ is_primary(config, last'.key)
        /\ ~key_pressed)
       => IF modifiers_pressed = config.modifiers
          THEN fired' = Append(fired, FiredBy(config)) /\ key_pressed'
          ELSE fired' = fired /\ ~key_pressed']_vars

C5_Witness ==
    /\ IsPress(last) /\ ~last.was_pressed
    /\ Registered
    /\ ~is_primary_a_modifier(config)
    /\ is_primary(config, last.key)
    /\ config.modifiers = {"ctrl"}
    /\ modifiers_pressed = {"ctrl", "shift"}
    /\ fired = <<>> /\ ~key_pressed

\* C6: when the primary key is itself a modifier, a modifier press with the
\* engaged flag false fires Start/Toggle if and only if, the pressed modifier
\* added, the held-modifier set equals modifiers \cup {primary_key}.
C6_ModifierComboFiresIffExactSet ==
    [][(/\ IsPress(last')
        /\ Registered
        /\ is_primary_a_modifier(config)
        /\ is_modifier_key(last'.key)
        /\ ~key_pressed)
       => /\ modifiers_pressed' = modifiers_pressed \cup {get_modifier_name(last'.key)}
          /\ IF modifiers_pressed' = config.modifiers \cup {config.primary_key}
             THEN fired' = Append(fired, FiredBy(config)) /\ key_pressed'
             ELSE fired' = fired /\ ~key_pressed']_vars

C6_Witness ==
    /\ last.op = "press" /\ ~last.was_pressed
    /\ Registered
    /\ config.primary_key = "ctrl" /\ config.modifiers = {"shift"}
    /\ last.key = K("shift_l")
    /\ key_pressed /\ Len(fired) = 1

\* C7: for an engaged modifier-only combination, the release of a constituent
\* modifier clears the engaged flag and fires one Stop in Hold mode and nothing
\* in Toggle mode; a modifier release with the flag clear fires nothing.
C7_ModifierReleaseDisengages ==
    [][(/\ last'.op = "release"
        /\ Registered
        /\ is_primary_a_modifier(config)
        /\ is_modifier_key(last'.key))
       => /\ (key_pressed /\ get_modifier_name(last'.key)
                                \in config.modifiers \cup {config.primary_key})
             => /\ ~key_pressed'
                /\ fired' = IF config.mode = "hold"
                             THEN Append(fired, "Stop") ELSE fired
          /\ ~key_pressed => (fired' = fired /\ ~key_pressed')]_vars

C7_Witness ==
    /\ last.op = "release" /\ ~last.was_pressed
    /\ is_modifier_key(last.key)
    /\ Registered
    /\ config = [mode |-> "hold", modifiers |-> {"shift"}, primary_key |-> "ctrl"]
    /\ fired = <<"Start", "Stop">>
    /\ down = {} /\ nUpdates = 0

\* C8: update_config installs the new configuration, empties the held-modifier
\* set and clears the engaged flag without firing; the Hold gesture engaged at
\* that moment gets no Stop: the releases of the keys still held fire nothing,
\* and no Stop is fired before a new Start or Toggle.
DroppedGestureSilent ==
    (drop.active /\ Len(fired) > drop.mark) => fired[drop.mark + 1] # "Stop"

C8_UpdateConfigDropsGesture ==
    [][/\ last'.op = "update_config"
          => /\ config' = last'.cfg
             /\ modifiers_pressed' = {}
             /\ ~key_pressed'
             /\ fired' = fired
       /\ (drop.active /\ ~drop.pressed_since /\ last'.op = "release")
          => fired' = fired
       /\ DroppedGestureSilent']_vars

C8_Witness ==
    /\ drop.active /\ ~drop.pressed_since
    /\ last.op = "release"
    /\ Registered /\ config.mode = "hold"
    /\ is_primary(config, last.key)
    /\ check_modifiers_match(config, modifiers_pressed)
    /\ Len(fired) = drop.mark /\ fired = <<"Start">>

(***************************************************************************)
(* Properties of the text injector.                                        *)
(***************************************************************************)
Returned == call.op = "inject"

C10_ClipboardRestoredWhenPasteFails ==
    (/\ Returned /\ inj_config.preserve_clipboard
     /\ call.copied /\ call.f.keys # "ok"
     /\ ~call.f.paste /\ ~call.f.restore)
        => clipboard = call.clip_before

\* Whether a delivery method of the returned call worked, read off the OS
\* calls that raised.
Blank(t) == \A i \in 1..Len(t) : t[i] \in Whitespace
MethodSucceeded(m) ==
    IF m = "clipboard"
    THEN ~call.f.copy /\ call.f.keys = "ok"
    ELSE call.f.type_at \notin 1..Len(prepare(call.text, inj_config))
Primary == IF inj_config.method = "keyboard" THEN "keyboard" ELSE "clipboard"
Secondary == IF inj_config.method = "keyboard" THEN "clipboard" ELSE "keyboard"

\* C34: when inject() has returned, on success or after a failure at any
\* step, the injector holds no clipboard snapshot.
C34_NoBackupHeldAfterReturn == Returned => clipboard_backup = {}

\* The snapshot is released whenever the steps between the backup and the
\* restore did not raise.
NoBackupHeldUnlessCopyOrPasteRaised ==
    (/\ Returned /\ call.backup_before = {}
     /\ ~call.f.copy /\ call.f.keys = "ok")
        => clipboard_backup = {}

\* C11: with the clipboard-then-keyboard method, when the clipboard delivery
\* fails and typing succeeds, inject() attempts the clipboard and then the
\* keyboard, the application receives the typed text, and inject() returns
\* true.
C11_FallbackToKeyboardReturnsTrue ==
    (/\ Returned /\ ~Blank(call.text)
     /\ inj_config.method = "clipboard_keyboard_fallback"
     /\ ~MethodSucceeded("clipboard") /\ MethodSucceeded("keyboard"))
        => /\ call.ok
           /\ call.attempts = <<"clipboard", "keyboard">>
           /\ call.app[Len(call.app)] =
                  [how |-> "type", text |-> prepare(call.text, inj_config)]

C11_Witness ==
    /\ Returned /\ call.text = <<"h">>
    /\ inj_config.method = "clipboard_keyboard_fallback"
    /\ call.f.keys = "before" /\ call.f.type_at = 0
    /\ call.ok
    /\ call.attempts = <<"clipboard", "keyboard">>

\* C12: one inject() makes at most two delivery attempts, the primary method
\* and, exactly when the primary failed, the secondary method once; it returns
\* true iff an attempted method succeeded, false iff both failed.
C12_AtMostOneFallback ==
    (Returned /\ ~Blank(call.text))
        => /\ call.attempts = IF MethodSucceeded(Primary)
                              THEN <<Primary>>
                              ELSE <<Primary, Secondary>>
           /\ call.ok \in BOOLEAN
           /\ call.ok <=> \E i \in 1..Len(call.attempts) :
                              MethodSucceeded(call.attempts[i])
           /\ ~call.ok <=> (~MethodSucceeded(Primary) /\ ~MethodSucceeded(Secondary))
           /\ Len(call.app) <= 2

C12_Witness ==
    /\ Returned /\ call.text = <<"h">>
    /\ inj_config.method = "keyboard"
    /\ call.f.type_at = 1 /\ call.f.copy
    /\ ~call.ok
    /\ call.attempts = <<"keyboard", "clipboard">>

\* C13: inject() of an empty or whitespace-only text returns false, attempts no
\* method, neither reads nor writes the clipboard and sends the application
\* nothing.
C13_BlankTextRejected ==
    (Returned /\ Blank(call.text))
        => /\ ~call.ok
           /\ call.attempts = <<>>
           /\ call.app = <<>>
           /\ ~call.read /\ ~call.copied
           /\ clipboard = call.clip_before
           /\ clipboard_backup = call.backup_before

C13_Witness ==
    /\ Returned /\ call.text = <<" ">>
    /\ inj_config.add_trailing_space /\ inj_config.preserve_clipboard
    /\ call.f = NoFailure
    /\ ~call.ok /\ call.attempts = <<>>

\* What reached the focused application in the returned call: a paste, and
\* typed characters.
\* the combination strings of recognized modifier tokens and at most one
\* other key token
IsValidCombination(hotkey_string) ==
    Cardinality({i \in 1..Len(hotkey_string) :
                    hotkey_string[i].name \notin modifier_keywords}) <= 1

C22_StartFailureNotRetried ==
    [][/\ (lastcall'.op = "start" /\ lastcall'.outcome \in {"listener_raises", "start_raises"})
             => (~lastcall'.ok /\ ~running' /\ ~hooked')
       /\ (lastcall' # lastcall /\ lastcall'.op = "start" /\ lastcall'.was_running)
             => (/\ lastcall'.ok /\ installs' = installs
                 /\ UNCHANGED <<listener, running, hooked>>)
       /\ installs' # installs
             => (/\ lastcall' # lastcall /\ lastcall'.op = "start"
                 /\ ~lastcall'.was_running
                 /\ installs' = installs + 1)]_vars

C22_Witness ==
    /\ lastcall = [op |-> "start", ok |-> FALSE, was_running |-> FALSE,
                   outcome |-> "start_raises", created |-> 2]
    /\ installs = 2
    /\ listener /\ ~running /\ ~hooked
    /\ fired # <<>>

\* C23: once stop() has returned and the listener thread has handled the
\* event it had taken, the held-modifier set is empty and the engaged flag is
\* false.
C23_StopLeavesNothingPressed ==
    (ctl = "idle" /\ lastcall.op = "stop" /\ pending = NoPending)
        => (modifiers_pressed = {} /\ ~key_pressed)

\* C27: with a fixed Hold configuration and the callbacks registered, the
\* events fired alternate Start, Stop, Start, ... beginning with Start, and the
\* engaged flag is true exactly after a Start that no Stop has followed yet.
C27_HoldAlternates ==
    config.mode = "hold" =>
        /\ \A i \in 1..Len(fired) :
              fired[i] = IF i % 2 = 1 THEN "Start" ELSE "Stop"
        /\ key_pressed = (Len(fired) % 2 = 1)

C27_Witness ==
    /\ config = [mode |-> "hold", modifiers |-> {"shift"}, primary_key |-> "a"]
    /\ fired = <<"Start", "Stop", "Start">>
    /\ key_pressed
    /\ last.op = "repeat"

\* The aliases of C28 under free key events: a configuration that names the
\* token meta never fires, whatever keys are pressed.
MetaNeverFires ==
    ("meta" \in config.modifiers \cup {config.primary_key}) => fired = <<>>

\* C28: every configuration parse produces from the tokens shift, ctrl, cmd
\* and meta with or without a named key or a character is fireable: pressing
\* the keys of its modifiers and then its primary key fires Start (Hold) or
\* Toggle (Toggle).
C28_GestureFires ==
    (phase = "held" /\ cycles = 0) => fired = <<FiredBy(config)>>

Pasted == \E i \in 1..Len(call.app) : call.app[i].how = "paste"
Typed == \E i \in 1..Len(call.app) : call.app[i].how = "type" /\ call.app[i].text # <<>>

\* C24: one inject() delivers the text at most once: the application never
\* receives both a paste and typed characters for the same call.
C24_DeliveredAtMostOnce == Returned => ~(Pasted /\ Typed)

\* C25: with method clipboard a failed clipboard delivery makes inject() return
\* false without typing, and with method keyboard a failed typing makes it
\* return false without writing the clipboard or pasting.
C25_SingleMethodOnly ==
    /\ (/\ Returned /\ ~Blank(call.text)
        /\ inj_config.method = "clipboard" /\ ~MethodSucceeded("clipboard"))
           => (~call.ok /\ call.attempts = <<"clipboard">> /\ ~Typed)
    /\ (/\ Returned /\ ~Blank(call.text)
        /\ inj_config.method = "keyboard" /\ ~MethodSucceeded("keyboard"))
           => (~call.ok /\ call.attempts = <<"keyboard">> /\ ~call.copied /\ ~Pasted)

\* C26: when two inject_async() calls overlap, with preserve_clipboard set and
\* the clipboard delivery, the clipboard after both have completed holds what
\* it held before the first began.
C26_ClipboardSurvivesOverlap ==
    (/\ \A t \in Threads : AtStep(t, "done") /\ inj_threads[t].overlapped
     /\ inj_config.preserve_clipboard)
        => clipboard = clip_at_start

\* the same for calls that do not overlap
SequentialCallsRestore ==
    (/\ \A t \in Threads : AtStep(t, "done") /\ ~inj_threads[t].overlapped
     /\ inj_config.preserve_clipboard)
        => clipboard = clip_at_start

(***************************************************************************)
(* Properties of inject_async().                                           *)
(***************************************************************************)
Invoked(t, name) ==
    {i \in 1..Len(async_calls[t].events) : async_calls[t].events[i].cb = name}

\* _inject() has returned, having invoked the per-call callback once with the
\* result of inject() and then the completion callback once
Notified(t) ==
    LET c == async_calls[t]
        n == Len(c.events)
    IN  /\ c.pc = "done"
        /\ Cardinality(Invoked(t, "callback")) = IF c.callback THEN 1 ELSE 0
        /\ c.callback => c.events[1] = [cb |-> "callback", arg |-> c.success]
        /\ Cardinality(Invoked(t, "complete")) <= 1
        /\ c.registered => (n >= 1 /\ c.events[n].cb = "complete")

\* C35: every inject_async() call eventually invokes its per-call callback
\* exactly once with the result of inject(), and then the registered
\* completion callback exactly once, whether the injection succeeded, failed
\* or was rejected for a blank text.
C35_CallbacksInvokedOnce ==
    /\ \A t \in Threads : (async_calls[t].pc = "inject") ~> Notified(t)
    /\ [](\A t \in Threads : async_calls[t].pc = "done" => Notified(t))

\* a call with a blank text has been rejected and has invoked both callbacks
C35_Witness ==
    LET c == async_calls["t1"]
    IN  /\ c.pc = "done" /\ strip(c.text) = <<>> /\ c.callback /\ c.registered
        /\ c.events = <<[cb |-> "callback", arg |-> FALSE],
                        [cb |-> "complete", arg |-> TRUE]>>

\* a call whose two deliveries both failed has invoked both callbacks
C35_FailedWitness ==
    LET c == async_calls["t2"]
    IN  /\ c.pc = "done" /\ strip(c.text) # <<>> /\ ~c.success
        /\ c.events = <<[cb |-> "callback", arg |-> FALSE],
                        [cb |-> "complete", arg |-> TRUE]>>

(***************************************************************************)
(* Properties of LocalVoiceApp.                                            *)
(***************************************************************************)
\* C36: recording and processing are never both true; a Start request, or a
\* Toggle while not recording, is ignored while recording or processing; a
\* Stop request is ignored while not recording; and the recorder's
\* start_recording() is never called while a transcription is under way.
C36_NeverRecordingWhileProcessing ==
    /\ ~(is_recording /\ is_processing)
    /\ worker.st = "running" => is_processing
    /\ (/\ last_req.op \in {"start", "toggle"}
        /\ last_req.was_recording \/ last_req.was_processing)
          => ~last_req.started
    /\ (last_req.op = "start" /\ last_req.was_recording) => ~last_req.stopped
    /\ (last_req.op = "stop" /\ ~last_req.was_recording)
          => (~last_req.stopped /\ ~last_req.started)
    /\ last_req.started => ~last_req.in_flight

\* a Start request was ignored while the worker was transcribing
C36_Witness ==
    /\ last_req.op = "start" /\ last_req.in_flight /\ ~last_req.started
    /\ is_processing /\ ~is_recording /\ worker.st = "running"

C38_LockFreeWhileCallbackRuns ==
    callers.listener # "idle" => lock # "listener"

\* A callback that has called into the manager stays where it is.
CallbackStaysBlocked ==
    [][callers.listener \in Waits => callers'.listener = callers.listener]_vars

\* Callbacks that do not call into the manager return, and the main thread's
\* calls get the lock.
OnlyCallbacksHoldTheLock ==
    lock = "listener" <=> callers.listener # "idle"

(***************************************************************************)
(* Properties of update_from_string().                                     *)
(***************************************************************************)
\* the empty string and the strings with an empty or blank part
IsMalformed(hotkey_string) ==
    \E i \in 1..Len(hotkey_string) : hotkey_string[i].name = ""

\* C39: a malformed combination string, the empty string or one with an
\* empty part such as 'ctrl+', is reported as an error through the return
\* value and its configuration is not installed.
C39_MalformedStringRejected ==
    (parse_call.done /\ IsMalformed(parse_call.hotkey_string))
        => (parse_call.returned = "error" /\ ~parse_call.installed)

\* The configuration of a malformed string whose primary key is empty is
\* installed and invokes no callback, whatever is pressed.
EmptyPrimaryNeverFires ==
    (parse_call.done /\ config.primary_key = "") => Len(fired) = drop.mark

\* Every string that has an empty part and no other key gives an empty
\* primary key.
MalformedGivesEmptyPrimary ==
    (/\ parse_call.done
     /\ \A i \in 1..Len(parse_call.hotkey_string) :
           parse_call.hotkey_string[i].name \in {"", "ctrl"}
     /\ parse_call.hotkey_string[Len(parse_call.hotkey_string)].name = "")
        => config.primary_key = ""

(***************************************************************************)
(* Properties of the audio recorder.                                       *)
(***************************************************************************)
StartReturned(t) == pc[t] = "idle" /\ ret[t].op = "start"
\* stop_recording() returned after finding the state Recording
StopReturned(t) == pc[t] = "idle" /\ ret[t].op = "stop" /\ ret[t].ok
FailedStartStep ==
    \E t \in Threads :
        /\ pc[t] \in {"open", "stream_start"}
        /\ pc'[t] = "idle"
        /\ ret'[t].op = "start" /\ ~ret'[t].ok

\* C14: whatever the interleaving of start_recording(), stop_recording() and
\* the audio callbacks, with start and stop on different threads, the state
\* changes only Idle->Recording, Recording->Stopping, Stopping->Idle, or
\* Recording->Idle when a start fails.
C14_StateTransitions ==
    [][state' # state =>
          \/ <<state, state'>> \in {<<"IDLE", "RECORDING">>,
                                    <<"RECORDING", "STOPPING">>,
                                    <<"STOPPING", "IDLE">>}
          \/ (state = "RECORDING" /\ state' = "IDLE" /\ FailedStartStep)]_vars

\* C15: when no candidate rate passed the capability check, start_recording()
\* returns false, the state is Idle and no stream was opened.
C15_NoRateNoStream ==
    \A t \in Threads :
        (StartReturned(t) /\ probe.candidates # <<>> /\ probe.passed = {})
            => (~ret[t].ok /\ state = "IDLE" /\ ~probe.opened)

\* C16: a stop_recording() of a Recording session that accepted no chunk
\* returns None, not a zero-length buffer, and the state is Idle.
C16_NoFramesNoBuffer ==
    \A t \in Threads :
        (StopReturned(t) /\ accepted = <<>>)
            => (ret[t].data = NoData /\ state = "IDLE")

C16_Witness ==
    /\ StopReturned("t1") /\ accepted = <<>>
    /\ ret["t1"].data.none
    /\ starts = 1 /\ probe.opened
    /\ stream = "none" /\ state = "IDLE"

\* C17: when the stream ran at the configured rate, stop_recording() returns
\* exactly the chunks that passed the audio callback's state check in the
\* session, in arrival order, also when a callback was running while
\* stop_recording() set Stopping.
C17_BufferIsAcceptedFrames ==
    \A t \in Threads :
        (StopReturned(t) /\ active_sample_rate = sample_rate)
            => ret[t].data = IF accepted = <<>>
                             THEN NoData
                             ELSE [none |-> FALSE, frames |-> accepted,
                                   samples |-> Len(accepted)]

C17_Witness ==
    /\ StopReturned("t1") /\ active_sample_rate = sample_rate
    /\ session.overlapped
    /\ Len(accepted) = 2
    /\ ret["t1"].data.frames = accepted

\* The place of the chunk numbered id among the accepted chunks.
Place(id) == CHOOSE k \in 1..Len(accepted) : accepted[k].id = id

\* C18: the voice-activity callback is called with true only for the first
\* chunk of a run of consecutive voiced chunks.
C18_TrueOncePerVoicedRun ==
    \A i \in 1..Len(vad_events) :
        vad_events[i].voice
            => \/ Place(vad_events[i].id) = 1
               \/ ~is_voice(accepted[Place(vad_events[i].id) - 1])

\* Every false in the voice-activity callbacks since the reset follows a true.
FalseFollowsTrue ==
    \A i \in 1..Len(vad_events) :
        ~vad_events[i].voice => \E j \in 1..(i - 1) : vad_events[j].voice

C29_SessionStartsEmpty ==
    /\ \A t \in Threads :
          pc[t] = "set_recording"
              => (audio_buffer = <<>> /\ max_abs_level = 0 /\ ~voice_detected)
    /\ \A t \in Threads :
          (StartReturned(t) /\ ret[t].ok /\ session.start_no = starts)
              => \A i \in 1..Len(audio_buffer) : audio_buffer[i].id > session.first_id
    /\ \A t \in Threads :
          StopReturned(t)
              => \A i \in 1..Len(ret[t].data.frames) :
                    ret[t].data.frames[i].id > session.first_id

C29_Witness ==
    /\ StopReturned("t1")
    /\ session.earlier_frames /\ session.start_no = 2
    /\ Len(ret["t1"].data.frames) = 1
    /\ ret["t1"].data.frames[1].id > session.first_id

\* C30: a chunk delivered while the state is not Recording changes neither the
\* buffer, the peak level, the voice flag nor the callbacks made, and the
\* buffer never grows in a step taken while the state is not Recording.
C30_NoEffectUnlessRecording ==
    [][state # "RECORDING" =>
          /\ Len(audio_buffer') <= Len(audio_buffer)
          /\ delivered' # delivered =>
                 UNCHANGED <<audio_buffer, max_abs_level, voice_detected,
                             vad_events, raw_events, cb>>]_vars

\* the rates of the last negotiation, as a set
Candidates == {probe.candidates[i] : i \in 1..Len(probe.candidates)}

\* C31: the configured rate is probed first and the device's rate second,
\* the latter only when it differs; the stream is opened at the first rate
\* that passed the check, at the device's rate only when the configured rate
\* was rejected, and always at a rate that passed.
C31_OpenedAtFirstPassingRate ==
    probe.opened =>
        /\ probe.candidates[1] = sample_rate
        /\ Len(probe.candidates) <= 2
        /\ Len(probe.candidates) = 2 => probe.candidates[2] # sample_rate
        /\ active_sample_rate \in probe.passed
        /\ active_sample_rate # sample_rate => sample_rate \notin probe.passed

\* the same, for negotiations in which some candidate passed
OpenedAtFirstPassingRateIfAny ==
    (probe.opened /\ probe.passed # {}) => C31_OpenedAtFirstPassingRate

\* C32: whenever the state is Idle and no call is under way, the recorder
\* holds no stream: after a start_recording() that failed and after every
\* stop_recording() the stream reference is empty and no created stream is
\* left unclosed.
C32_IdleHoldsNoStream ==
    (state = "IDLE" /\ \A t \in Threads : pc[t] = "idle")
        => (stream = "none" /\ ~leaked)

(***************************************************************************)
(* Properties of _resample_audio().                                        *)
(***************************************************************************)
Resampled(n, s, t) ==
    /\ resample_call.via = "resample"
    /\ resample_call.n = n /\ resample_call.source = s /\ resample_call.target = t
    /\ resample_call.out # -1

\* num / den rounded to the nearest integer, an exact half to the even one
HalfEven(num, den) ==
    CHOOSE q \in 0..(num \div den + 1) :
        /\ 2 * num - den <= 2 * den * q
        /\ 2 * den * q <= 2 * num + den
        /\ (2 * den * q = 2 * num - den \/ 2 * den * q = 2 * num + den)
               => q % 2 = 0

ExpectedFrames(n, s, t) ==
    IF n < 2 \/ s = t THEN n ELSE Max(1, HalfEven(n * t, s))

\* C33: resampling n frames from rate s to rate t returns n frames when
\* n < 2 or s = t, and otherwise max(1, round(n*t/s)) frames with an exact
\* half rounded to the even neighbour; stop_recording() resamples a
\* non-empty buffer exactly when the stream's rate differs from the
\* configured rate, and then to the configured rate.
C33_ResampledFrameCount ==
    resample_call.out # -1 =>
        /\ resample_call.via = "resample" =>
              resample_call.out = ExpectedFrames(resample_call.n,
                                                 resample_call.source,
                                                 resample_call.target)
        /\ resample_call.via = "stop" =>
              /\ resample_call.n > 0 =>
                    (resample_call.called <=> resample_call.source # sample_rate)
              /\ resample_call.out =
                    IF resample_call.source # sample_rate
                    THEN ExpectedFrames(resample_call.n, resample_call.source,
                                        sample_rate)
                    ELSE resample_call.n

\* five frames at 16000 Hz become 2.5 frames at 8000 Hz, returned as two
C33_Witness ==
    Resampled(5, 16000, 8000) /\ resample_call.out = 2

C33_StopWitness ==
    /\ resample_call.via = "stop" /\ resample_call.called
    /\ resample_call.n = 16 /\ resample_call.source = 48000
    /\ resample_call.out = 5

\* C20 as claimed: 16 frames resampled from 48000 Hz to 16000 Hz give 6 frames.
C20_SixteenFramesGiveSix == Resampled(16, 48000, 16000) => resample_call.out = 6

\* C20 as amended: 16 frames resampled from 48000 Hz to 16000 Hz give
\* round(16 * 16000 / 48000) = 5 frames.
C20_SixteenFramesGiveFive == Resampled(16, 48000, 16000) => resample_call.out = 5

C20_Witness == Resampled(16, 48000, 16000) /\ resample_call.out = 5

====
